---------------------------- MODULE Spec2Model ----------------------------
(***************************************************************************)
(* A model of cvlens: the mail ingestion pass (src/services/ingest.py),    *)
(* the markdown file store (src/models/file_storage.py), the analysis pass *)
(* (src/services/parse.py), the encrypted candidates table                 *)
(* (src/models/database.py), the scoring pass (src/services/score.py) and  *)
(* the decision and purge commands of the UI (app.py).                     *)
(*                                                                         *)
(* Strings are sequences: file names are sequences of one-character        *)
(* strings, text values are sequences of code points, byte strings are     *)
(* sequences of numbers below 256.  Python values that can be None, a      *)
(* str, bytes, a list or a dict are records [t, v] tagged with their type. *)
(***************************************************************************)
EXTENDS Integers, Sequences, FiniteSets, TLC

VARIABLES
    fs,               \* the files under data/: path -> content
    processing_log,   \* data/processing_log.md: its entries, newest first
    candidates,       \* the candidates table: id -> row
    processing_logs,  \* the processing_logs table, oldest first
    last,             \* the last operation run and what it returned
    sel_in,           \* _select_best_resume: its argument
    sel_out,          \* _select_best_resume: its result
    sc_in,            \* score_candidate: the row and the job profile
    sc_out,           \* score_candidate: its result
    att_in,           \* _is_valid_attachment: its argument
    att_out,          \* _is_valid_attachment: its result
    sk_in,            \* _score_skills: the job's skill lists and the candidate's
    sk_out,           \* _score_skills: its result
    env,              \* what the process finds when it starts: AES_KEY, job_profile.yml
    app,              \* the process once started: its cipher key and job profile
    settings,         \* config._settings
    settings_file     \* the text of settings.json

vars == <<fs, processing_log, candidates, processing_logs, last,
          sel_in, sel_out, sc_in, sc_out, att_in, att_out, sk_in, sk_out, env, app,
          settings, settings_file>>

-----------------------------------------------------------------------------
(* Sequences and Python values *)

Range(s) == {s[i] : i \in 1..Len(s)}

\* the concatenation of the sequences of ss, by halves
RECURSIVE Flatten(_)
Flatten(ss) ==
    IF ss = <<>> THEN <<>>
    ELSE IF Len(ss) = 1 THEN ss[1]
    ELSE Flatten(SubSeq(ss, 1, Len(ss) \div 2)) \o Flatten(SubSeq(ss, Len(ss) \div 2 + 1, Len(ss)))

Max(S) == CHOOSE x \in S : \A y \in S : y <= x

\* the sequence f, with every element computed
AsSeq(f) == SubSeq(f, 1, Len(f))

None == [t |-> "none", v |-> <<>>]
Str(s) == [t |-> "str", v |-> s]
Bytes(b) == [t |-> "bytes", v |-> b]
List(l) == [t |-> "list", v |-> l]
Dict(d) == [t |-> "dict", v |-> d]
Bool(b) == [t |-> "bool", v |-> b]

\* Python truthiness: None, '', b'', [] and {} are false
Truthy(x) == x.t # "none" /\ x.v # <<>>

-----------------------------------------------------------------------------
(* File names: str.lower, the in operator, str.endswith, Path.suffix *)

UpperCase == <<"A","B","C","D","E","F","G","H","I","J","K","L","M",
               "N","O","P","Q","R","S","T","U","V","W","X","Y","Z">>
LowerCase == <<"a","b","c","d","e","f","g","h","i","j","k","l","m",
               "n","o","p","q","r","s","t","u","v","w","x","y","z">>

LowerChar(c) ==
    IF \E i \in 1..Len(UpperCase) : UpperCase[i] = c
    THEN LowerCase[CHOOSE i \in 1..Len(UpperCase) : UpperCase[i] = c]
    ELSE c

Lower(s) == AsSeq([i \in 1..Len(s) |-> LowerChar(s[i])])

\* pat in s
Contains(s, pat) ==
    \E i \in 0..(Len(s) - Len(pat)) : SubSeq(s, i + 1, i + Len(pat)) = pat

EndsWith(s, suf) ==
    Len(s) >= Len(suf) /\ SubSeq(s, Len(s) - Len(suf) + 1, Len(s)) = suf

\* Path(name).suffix: from the last dot, unless the name starts or ends there
Suffix(name) ==
    LET dots == {i \in 1..Len(name) : name[i] = "."}
    IN  IF dots = {} \/ Max(dots) = 1 \/ Max(dots) = Len(name)
        THEN <<>>
        ELSE SubSeq(name, Max(dots), Len(name))

-----------------------------------------------------------------------------
(* EmailIngestor: the attachment filter and the choice of the best resume *)

max_attachment_size == 25 * 1024 * 1024

supported_extensions == {<<".","p","d","f">>, <<".","d","o","c">>, <<".","d","o","c","x">>}

exclude_patterns ==
    << <<"n","d","a">>,
       <<"n","o","n","-","d","i","s","c","l","o","s","u","r","e">>,
       <<"a","g","r","e","e","m","e","n","t">>,
       <<"c","o","n","t","r","a","c","t">>,
       <<"f","o","r","m">>,
       <<"a","p","p","l","i","c","a","t","i","o","n">>,
       <<"c","o","n","s","e","n","t">>,
       <<"t","e","m","p","l","a","t","e">>,
       <<"p","o","l","i","c","y">>,
       <<"t","e","r","m","s">>,
       <<"c","o","n","d","i","t","i","o","n","s">>,
       <<"w","a","i","v","e","r">>,
       <<"r","e","l","e","a","s","e">>,
       <<"a","u","t","h","o","r","i","z","a","t","i","o","n">>,
       <<"p","e","r","m","i","s","s","i","o","n">>,
       <<"d","i","s","c","l","a","i","m","e","r">>,
       <<"t","c","c","t","e","c","h">>,
       <<"p","d","p","a">>,
       <<"r","e","v","i","s","i","o","n">>,
       <<"t","r","a","n","s","c","r","i","p","t">>,
       <<"c","e","r","t","i","f","i","c","a","t","e">>,
       <<"d","i","p","l","o","m","a">> >>

resume_patterns ==
    << <<"r","e","s","u","m","e">>,
       <<"c","v">>,
       <<"c","u","r","r","i","c","u","l","u","m">>,
       <<"v","i","t","a","e">>,
       <<"p","r","o","f","i","l","e">>,
       <<"b","i","o">> >>

\* a filter that also turns away a file of exactly 50000 bytes without a
\* resume-like name
is_valid_attachment_upto(attachment) ==
    LET filename_lower == Lower(attachment.name)
        has_resume_pattern ==
            \E i \in 1..Len(resume_patterns) : Contains(filename_lower, resume_patterns[i])
    IN  IF attachment.size > max_attachment_size THEN FALSE
        ELSE IF Lower(Suffix(attachment.name)) \notin supported_extensions THEN FALSE
        ELSE IF \E i \in 1..Len(exclude_patterns) : Contains(filename_lower, exclude_patterns[i])
             THEN FALSE
        ELSE IF attachment.size <= 50000 /\ ~has_resume_pattern THEN FALSE
        ELSE TRUE

\* _is_valid_attachment(attachment): attachment has a name and a size
is_valid_attachment(attachment) ==
    LET filename_lower == Lower(attachment.name)
        has_resume_pattern ==
            \E i \in 1..Len(resume_patterns) : Contains(filename_lower, resume_patterns[i])
    IN  IF attachment.size > max_attachment_size THEN FALSE
        ELSE IF Lower(Suffix(attachment.name)) \notin supported_extensions THEN FALSE
        ELSE IF \E i \in 1..Len(exclude_patterns) : Contains(filename_lower, exclude_patterns[i])
             THEN FALSE
        ELSE IF attachment.size < 50000 /\ ~has_resume_pattern THEN FALSE
        ELSE TRUE

\* the score _select_best_resume gives one saved attachment
attachment_score(att) ==
    LET filename_lower == Lower(att.name)
        by_name ==
            IF Contains(filename_lower, <<"r","e","s","u","m","e">>) THEN 10
            ELSE IF Contains(filename_lower, <<"c","v">>) THEN 8
            ELSE IF Contains(filename_lower, <<"c","u","r","r","i","c","u","l","u","m">>)
                    \/ Contains(filename_lower, <<"v","i","t","a","e">>) THEN 6
            ELSE 0
        by_size ==
            IF att.size > 200000 THEN 5
            ELSE IF att.size > 100000 THEN 3
            ELSE IF att.size > 50000 THEN 1
            ELSE 0
        by_type == IF EndsWith(Lower(att.name), <<".","p","d","f">>) THEN 2 ELSE 0
    IN  by_name + by_size + by_type

\* a sort that puts a pair before the earlier pairs of equal score
RECURSIVE InsertBeforeEqual(_, _)
InsertBeforeEqual(sorted, pair) ==
    IF sorted = <<>> THEN <<pair>>
    ELSE IF Head(sorted)[1] > pair[1]
         THEN <<Head(sorted)>> \o InsertBeforeEqual(Tail(sorted), pair)
         ELSE <<pair>> \o sorted

\* list.sort(key=lambda x: x[0], reverse=True) on (score, att) pairs: a stable
\* sort, so pairs of equal score keep their order; done here by insertion
RECURSIVE InsertByScore(_, _)
InsertByScore(sorted, pair) ==
    IF sorted = <<>> THEN <<pair>>
    ELSE IF Head(sorted)[1] >= pair[1]
         THEN <<Head(sorted)>> \o InsertByScore(Tail(sorted), pair)
         ELSE <<pair>> \o sorted

RECURSIVE SortByScoreDesc(_)
SortByScoreDesc(pairs) ==
    IF pairs = <<>> THEN <<>>
    ELSE InsertByScore(SortByScoreDesc(SubSeq(pairs, 1, Len(pairs) - 1)), pairs[Len(pairs)])

\* a choice that takes the first attachment saved
select_first_saved(attachments) == attachments[1]

\* _select_best_resume(attachments), attachments not empty
select_best_resume(attachments) ==
    IF Len(attachments) = 1 THEN attachments[1]
    ELSE LET scored_attachments ==
                 AsSeq([i \in 1..Len(attachments) |->
                           <<attachment_score(attachments[i]), attachments[i]>>])
         IN  SortByScoreDesc(scored_attachments)[1][2]


-----------------------------------------------------------------------------
(* The mailbox read by sync_folder *)

Name_John_Resume_pdf == <<"J","o","h","n","_","R","e","s","u","m","e",".","p","d","f">>
Name_cover_letter_docx == <<"c","o","v","e","r","_","l","e","t","t","e","r",".","d","o","c","x">>
Name_portfolio_pdf == <<"p","o","r","t","f","o","l","i","o",".","p","d","f">>
Name_CV_John_pdf == <<"C","V","_","J","o","h","n",".","p","d","f">>
Name_NDA_pdf == <<"N","D","A",".","p","d","f">>
Name_cv_resume_docx == <<"c","v","_","r","e","s","u","m","e",".","d","o","c","x">>

Attachment(n, s, c) == [name |-> n, size |-> s, content |-> c]

\* m1: a resume and a small cover letter; m2: a portfolio and the bytes of m1's
\* resume under another name; m3: only an excluded document; m4: a resume
\* as a Word document
Messages ==
    [m1 |-> [object_id |-> "m1", received |-> 3,
             attachments |-> << Attachment(Name_John_Resume_pdf, 300000, "d1"),
                                Attachment(Name_cover_letter_docx, 20000, "d2") >>],
     m2 |-> [object_id |-> "m2", received |-> 2,
             attachments |-> << Attachment(Name_portfolio_pdf, 120000, "d4"),
                                Attachment(Name_CV_John_pdf, 300000, "d1") >>],
     m3 |-> [object_id |-> "m3", received |-> 1,
             attachments |-> << Attachment(Name_NDA_pdf, 10000, "d3") >>],
     m4 |-> [object_id |-> "m4", received |-> 4,
             attachments |-> << Attachment(Name_cv_resume_docx, 100000, "d5") >>]]

EmailIds == DOMAIN Messages

\* what folder.get_messages may return in one sync: the folder's messages, in
\* the order the server lists them
MessageLists == {<<"m1", "m2", "m3">>, <<"m1">>}

\* a folder that holds the Word document and a PDF
ParseLists == {<<"m4", "m1">>}

\* the attachments of each message that pass _is_valid_attachment
ResumeAttachments ==
    [e \in EmailIds |-> SelectSeq(Messages[e].attachments, is_valid_attachment)]

\* hashlib.sha256 over a file's bytes: one digest per content
calculate_file_hash(content) == Str(<<"sha256", content>>)

-----------------------------------------------------------------------------
(* CandidateData and the markdown file store *)

\* datetime.isoformat and datetime.fromisoformat
isoformat(d) == <<"iso", d>>
fromisoformat(s) == s[2]

\* CandidateData(...) as _process_message builds it: every other field at
\* its default.  Sender, subject, summary and timestamp fields are left out.
CandidateData(email_id, email_date, resume_filename, resume_hash, resume_size_bytes) ==
    [email_id |-> email_id,
     email_date |-> email_date,
     resume_filename |-> resume_filename,
     resume_hash |-> resume_hash,
     resume_size_bytes |-> resume_size_bytes,
     candidate_name |-> None,
     candidate_email |-> None,
     candidate_phone |-> None,
     skills |-> List(<<>>),
     score |-> 0,
     score_breakdown |-> Dict(<<>>),
     status |-> "new",
     tags |-> List(<<>>),
     notes |-> Str(<<>>),
     is_parsed |-> FALSE,
     is_scored |-> FALSE,
     parse_error |-> None]

\* CandidateData.to_dict and CandidateData.from_dict
CandidateData_to_dict(c) == [c EXCEPT !.email_date = isoformat(c.email_date)]
CandidateData_from_dict(data) == [data EXCEPT !.email_date = fromisoformat(data.email_date)]

\* FileStorage.get_candidate_dir
get_candidate_dir(email_id) == <<"candidates", email_id>>

metadata_file(email_id) == Append(get_candidate_dir(email_id), "metadata.md")
decision_file(email_id) == Append(get_candidate_dir(email_id), "decision.md")
analysis_file(email_id) == Append(get_candidate_dir(email_id), "resume_analysis.md")
attachment_file(email_id, name) == get_candidate_dir(email_id) \o <<"attachments", name>>

\* open(path, 'w').write(content)
WriteFile(files, path, content) == (path :> content) @@ files

\* the text of metadata.md: the lines of the "Candidate Details" section and
\* the JSON block
metadata_content(candidate) ==
    [details |-> [name |-> candidate.candidate_name,
                  email |-> candidate.candidate_email,
                  phone |-> candidate.candidate_phone],
     json |-> CandidateData_to_dict(candidate)]

\* a store that keeps a second metadata.md for a candidate it already holds
save_candidate_metadata_again(files, candidate) ==
    WriteFile(files,
              IF metadata_file(candidate.email_id) \in DOMAIN files
              THEN <<"candidates", "again", "metadata.md">>
              ELSE metadata_file(candidate.email_id),
              metadata_content(candidate))

\* FileStorage.save_candidate_metadata, when the write succeeds
save_candidate_metadata(files, candidate) ==
    WriteFile(files, metadata_file(candidate.email_id), metadata_content(candidate))

\* FileStorage.load_candidate_metadata: None when there is no metadata.md
has_metadata(files, email_id) == metadata_file(email_id) \in DOMAIN files
load_candidate_metadata(files, email_id) ==
    CandidateData_from_dict(files[metadata_file(email_id)].json)

LogEntry(email_id, action, status) == [email_id |-> email_id, action |-> action, status |-> status]

\* a log that has no entry for a message that was skipped
log_processing_unskipped(log, email_id, action, status) ==
    IF status = "skipped" THEN log ELSE <<LogEntry(email_id, action, status)>> \o log

\* a log whose new entry takes the place of the first entry
log_processing_replacing(log, email_id, action, status) ==
    <<LogEntry(email_id, action, status)>> \o (IF log = <<>> THEN <<>> ELSE Tail(log))

\* FileStorage.log_processing: the new entry goes before the first entry
log_processing(log, email_id, action, status) == <<LogEntry(email_id, action, status)>> \o log

\* FileStorage.list_all_candidates: every directory of candidates/ with a
\* metadata.md that loads, newest email first
CandidateDirs(files) == {p[2] : p \in {q \in DOMAIN files : q[1] = "candidates"}}

RECURSIVE SortByDateDesc(_, _)
SortByDateDesc(files, dirs) ==
    IF dirs = {} THEN <<>>
    ELSE LET d == CHOOSE x \in dirs : \A y \in dirs :
                      load_candidate_metadata(files, y).email_date
                          <= load_candidate_metadata(files, x).email_date
         IN  <<load_candidate_metadata(files, d)>> \o SortByDateDesc(files, dirs \ {d})

list_all_candidates(files) ==
    SortByDateDesc(files, {e \in CandidateDirs(files) : has_metadata(files, e)})


-----------------------------------------------------------------------------
(* EmailIngestor.sync_folder and _process_message *)

MaxLog == 6
MaxLogAll == 3

\* what can go wrong while one message is processed: the download of its
\* attachments, the writing of the attachment files, the writing of metadata.md
Faults == {"none", "download", "save_attachment", "save_metadata"}

\* what goes wrong in one pass over msgs: nothing, or, where a pass may
\* fail, one thing for one of the messages
FaultPlans(msgs, may_fail) ==
    {f \in [1..Len(msgs) -> Faults] :
        /\ \A i, j \in 1..Len(msgs) : (f[i] # "none" /\ f[j] # "none") => i = j
        /\ may_fail \/ \A i \in 1..Len(msgs) : f[i] = "none"}

\* _save_attachment and _calculate_file_hash for each valid attachment
RECURSIVE save_attachments(_, _, _)
save_attachments(files, email_id, atts) ==
    IF atts = <<>> THEN [fs |-> files, saved |-> <<>>]
    ELSE LET a == Head(atts)
             file_path == attachment_file(email_id, a.name)
             written == WriteFile(files, file_path, a.content)
             rest == save_attachments(written, email_id, Tail(atts))
         IN  [fs |-> rest.fs,
              saved |-> <<[name |-> a.name,
                           path |-> file_path,
                           hash |-> calculate_file_hash(written[file_path]),
                           size |-> a.size]>> \o rest.saved]

\* _process_message(message) from the state st = [fs, log]; ret is its result
process_message(st, message, fault) ==
    LET resume_attachments == ResumeAttachments[message.object_id]
        done == IF fault = "save_attachment"
                THEN [fs |-> st.fs, saved |-> <<>>]
                ELSE save_attachments(st.fs, message.object_id, resume_attachments)
        best_attachment == select_best_resume(done.saved)
        candidate == CandidateData(message.object_id, message.received, best_attachment.name,
                                   best_attachment.hash, best_attachment.size)
    IN  IF fault = "download"
        THEN [fs |-> st.fs, log |-> st.log, ret |-> FALSE]
        ELSE IF resume_attachments = <<>>
        THEN [fs |-> st.fs,
              log |-> log_processing(st.log, message.object_id, "fetch", "skipped"),
              ret |-> FALSE]
        ELSE IF done.saved = <<>>
        THEN [fs |-> done.fs,
              log |-> log_processing(st.log, message.object_id, "fetch", "skipped"),
              ret |-> FALSE]
        ELSE IF fault # "save_metadata"
        THEN [fs |-> save_candidate_metadata(done.fs, candidate),
              log |-> log_processing(st.log, message.object_id, "fetch", "success"),
              ret |-> TRUE]
        ELSE [fs |-> done.fs,
              log |-> log_processing(st.log, message.object_id, "fetch", "failed"),
              ret |-> FALSE]

\* a loop that counts no message for which _process_message returned False
RECURSIVE sync_messages_uncounted(_, _, _)
sync_messages_uncounted(st, msgs, faults) ==
    IF msgs = <<>> THEN st
    ELSE LET r == process_message(st, Messages[Head(msgs)], Head(faults))
         IN  sync_messages_uncounted([fs |-> r.fs, log |-> r.log,
                                      processed_count |-> st.processed_count + (IF r.ret THEN 1 ELSE 0),
                                      error_count |-> st.error_count],
                                     Tail(msgs), Tail(faults))

\* the loop of sync_folder over the messages
RECURSIVE sync_messages(_, _, _)
sync_messages(st, msgs, faults) ==
    IF msgs = <<>> THEN st
    ELSE LET r == process_message(st, Messages[Head(msgs)], Head(faults))
         IN  sync_messages([fs |-> r.fs, log |-> r.log,
                            processed_count |-> st.processed_count + (IF r.ret THEN 1 ELSE 0),
                            error_count |-> st.error_count + (IF r.ret THEN 0 ELSE 1)],
                           Tail(msgs), Tail(faults))

\* sync_folder(folder_id): (0, 1) when the mailbox or the folder cannot be read
sync_folder(files, log, reachable, msgs, faults) ==
    IF ~reachable
    THEN [fs |-> files, log |-> log, processed_count |-> 0, error_count |-> 1]
    ELSE sync_messages([fs |-> files, log |-> log, processed_count |-> 0, error_count |-> 0],
                       msgs, faults)

-----------------------------------------------------------------------------
(* ResumeParser.parse_all_pending *)

\* the report _generate_comprehensive_report returns: a fixed name
\* ("Processed from <file>") and email, no phone, no skills
DummyName == Str(<<80, 114, 111, 99>>)
DummyEmail == Str(<<115, 101, 101, 64>>)
ParseError == Str(<<69, 114, 114>>)
FileNotFound == Str(<<70, 105, 108, 101>>)

\* parse_resume(file_path) when the analyzer answers
parse_resume(file_path) ==
    [name |-> DummyName, email |-> DummyEmail, phone |-> None, skills |-> List(<<>>)]

\* _update_candidate_with_parsed_data, up to its two writes
update_candidate_with_parsed_data(candidate, parsed_data) ==
    [candidate EXCEPT
        !.candidate_name = IF Truthy(parsed_data.name) THEN parsed_data.name ELSE @,
        !.candidate_email = IF Truthy(parsed_data.email) THEN parsed_data.email ELSE @,
        !.candidate_phone = IF Truthy(parsed_data.phone) THEN parsed_data.phone ELSE @,
        !.skills = IF Truthy(parsed_data.skills) THEN parsed_data.skills ELSE @,
        !.is_parsed = TRUE]

\* one turn of the loop of parse_all_pending; outcome is what the analyzer
\* does with this candidate's document
parse_one(st, candidate, outcome) ==
    LET file_path == attachment_file(candidate.email_id, candidate.resume_filename)
        failed == [candidate EXCEPT !.parse_error = ParseError]
        missing == [candidate EXCEPT !.parse_error = FileNotFound]
        updated == update_candidate_with_parsed_data(candidate, parse_resume(file_path))
    IN  IF file_path \notin DOMAIN st.fs
        THEN [fs |-> save_candidate_metadata(st.fs, missing), log |-> st.log,
              success_count |-> st.success_count, error_count |-> st.error_count + 1]
        ELSE IF Lower(Suffix(candidate.resume_filename)) # <<".","p","d","f">> \/ outcome = "error"
        THEN [fs |-> save_candidate_metadata(st.fs, failed),
              log |-> log_processing(st.log, candidate.email_id, "parse", "failed"),
              success_count |-> st.success_count, error_count |-> st.error_count + 1]
        ELSE [fs |-> WriteFile(WriteFile(save_candidate_metadata(st.fs, updated),
                                         analysis_file(candidate.email_id), parse_resume(file_path)),
                               <<"resumes", candidate.resume_filename>>, st.fs[file_path]),
              log |-> log_processing(st.log, candidate.email_id, "parse", "success"),
              success_count |-> st.success_count + 1, error_count |-> st.error_count]

RECURSIVE parse_loop(_, _, _)
parse_loop(st, unparsed_candidates, outcomes) ==
    IF unparsed_candidates = <<>> THEN st
    ELSE parse_loop(parse_one(st, Head(unparsed_candidates), outcomes[Head(unparsed_candidates).email_id]),
                    Tail(unparsed_candidates), outcomes)

\* a pass that leaves out the records that failed before
IsUnparsedUntried(c) == ~c.is_parsed /\ c.parse_error = None

IsUnparsed(c) == ~c.is_parsed

parse_all_pending(files, log, outcomes) ==
    parse_loop([fs |-> files, log |-> log, success_count |-> 0, error_count |-> 0],
               SelectSeq(list_all_candidates(files), IsUnparsed), outcomes)

-----------------------------------------------------------------------------
(* FileStorage.update_candidate_status *)

Statuses == {"new", "interested", "pass"}

\* an update that rebuilds the record's analysis fields when it is reset
fs_update_candidate_status_reset(files, email_id, status, notes, tags) ==
    IF email_id \notin {p[2] : p \in {q \in DOMAIN files : q[1] = "candidates"}}
    THEN [fs |-> files, ret |-> FALSE]
    ELSE IF metadata_file(email_id) \in DOMAIN files
    THEN [fs |-> WriteFile(WriteFile(files, decision_file(email_id),
                                     [status |-> status, notes |-> notes, tags |-> List(<<>>)]),
                           metadata_file(email_id),
                           metadata_content(
                               [CandidateData_from_dict(files[metadata_file(email_id)].json) EXCEPT
                                   !.status = status, !.notes = notes,
                                   !.is_parsed = @ /\ status # "new"])),
          ret |-> TRUE]
    ELSE [fs |-> WriteFile(files, decision_file(email_id),
                           [status |-> status, notes |-> notes, tags |-> List(<<>>)]),
          ret |-> TRUE]

\* tags None becomes []; decision.md is written first, then metadata.md when
\* the candidate loads.  False when decision.md cannot be opened.
fs_update_candidate_status(files, email_id, status, notes, tags) ==
    LET the_tags == IF tags = None THEN List(<<>>) ELSE tags
        decided == WriteFile(files, decision_file(email_id),
                             [status |-> status, notes |-> notes, tags |-> the_tags])
    IN  IF email_id \notin CandidateDirs(files)
        THEN [fs |-> files, ret |-> FALSE]
        ELSE IF has_metadata(files, email_id)
        THEN [fs |-> save_candidate_metadata(decided,
                        [load_candidate_metadata(decided, email_id) EXCEPT
                            !.status = status, !.notes = notes, !.tags = the_tags]),
              ret |-> TRUE]
        ELSE [fs |-> decided, ret |-> TRUE]


-----------------------------------------------------------------------------
(* str.encode, bytes.decode, json.dumps, json.loads *)

\* UTF-8 of code points below 2048
Utf8Encode(s) ==
    Flatten(AsSeq([i \in 1..Len(s) |->
                      IF s[i] < 128 THEN <<s[i]>>
                      ELSE <<192 + (s[i] \div 64), 128 + (s[i] % 64)>>]))

\* every byte that is not a continuation byte starts a code point
Utf8Decode(b) ==
    LET leads == SelectSeq(AsSeq([i \in 1..Len(b) |-> i]),
                           LAMBDA i : b[i] < 128 \/ b[i] >= 192)
    IN  AsSeq([k \in 1..Len(leads) |->
                  IF b[leads[k]] < 128 THEN b[leads[k]]
                  ELSE (b[leads[k]] - 192) * 64 + (b[leads[k] + 1] - 128)])

Num(n) == [t |-> "num", v |-> n]
Float(r) == [t |-> "float", v |-> r]

HexDigit(n) == IF n < 10 THEN 48 + n ELSE 87 + n
HexValue(c) == IF c >= 97 THEN c - 87 ELSE c - 48

\* json.dumps escapes the quote, the backslash and every non-ASCII character
JsonEscapeChar(c) ==
    IF c = 34 THEN <<92, 34>>
    ELSE IF c = 92 THEN <<92, 92>>
    ELSE IF c >= 128
         THEN <<92, 117, HexDigit(c \div 4096), HexDigit((c \div 256) % 16),
                HexDigit((c \div 16) % 16), HexDigit(c % 16)>>
    ELSE <<c>>

JsonString(s) == <<34>> \o Flatten(AsSeq([i \in 1..Len(s) |-> JsonEscapeChar(s[i])])) \o <<34>>

RECURSIVE Digits(_)
Digits(n) == IF n < 10 THEN <<48 + n>> ELSE Digits(n \div 10) \o <<48 + (n % 10)>>

RECURSIVE JoinWith(_, _)
JoinWith(parts, sep) ==
    IF parts = <<>> THEN <<>>
    ELSE IF Len(parts) = 1 THEN parts[1]
    ELSE parts[1] \o sep \o JoinWith(Tail(parts), sep)

\* json.dumps(x): x a str, a non-negative int, a float (a fraction, written
\* n/d), a list, or a dict given as a sequence of <<key, value>> pairs
RECURSIVE JsonText(_)
JsonText(x) ==
    IF x.t = "str" THEN JsonString(x.v)
    ELSE IF x.t = "num" THEN Digits(x.v)
    ELSE IF x.t = "float" THEN Digits(x.v.n) \o <<47>> \o Digits(x.v.d)
    ELSE IF x.t = "list"
         THEN <<91>> \o JoinWith(AsSeq([i \in 1..Len(x.v) |-> JsonText(x.v[i])]), <<44, 32>>)
                   \o <<93>>
    ELSE <<123>> \o JoinWith(AsSeq([i \in 1..Len(x.v) |->
                                 JsonString(x.v[i][1]) \o <<58, 32>> \o JsonText(x.v[i][2])]),
                             <<44, 32>>) \o <<125>>

json_dumps(x) == Str(JsonText(x))

\* the characters of a JSON string from index i up to its closing quote
RECURSIVE ParseChars(_, _)
ParseChars(text, i) ==
    IF text[i] = 34 THEN [val |-> <<>>, next |-> i + 1]
    ELSE IF text[i] = 92 /\ text[i + 1] = 117
         THEN LET r == ParseChars(text, i + 6)
              IN  [val |-> <<HexValue(text[i + 2]) * 4096 + HexValue(text[i + 3]) * 256
                             + HexValue(text[i + 4]) * 16 + HexValue(text[i + 5])>> \o r.val,
                   next |-> r.next]
    ELSE IF text[i] = 92
         THEN LET r == ParseChars(text, i + 2)
              IN  [val |-> <<text[i + 1]>> \o r.val, next |-> r.next]
    ELSE LET r == ParseChars(text, i + 1)
         IN  [val |-> <<text[i]>> \o r.val, next |-> r.next]

RECURSIVE ParseDigits(_, _, _)
ParseDigits(text, i, acc) ==
    IF i <= Len(text) /\ text[i] >= 48 /\ text[i] <= 57
    THEN ParseDigits(text, i + 1, acc * 10 + (text[i] - 48))
    ELSE [val |-> Num(acc), next |-> i]

\* the JSON value that starts at index i, and the index after it
RECURSIVE ParseValue(_, _)
RECURSIVE ParseItems(_, _)
RECURSIVE ParsePairs(_, _)
ParseValue(text, i) ==
    IF text[i] = 34
    THEN LET r == ParseChars(text, i + 1) IN [val |-> Str(r.val), next |-> r.next]
    ELSE IF text[i] = 91
    THEN LET r == ParseItems(text, i + 1) IN [val |-> List(r.val), next |-> r.next]
    ELSE IF text[i] = 123
    THEN LET r == ParsePairs(text, i + 1) IN [val |-> Dict(r.val), next |-> r.next]
    ELSE LET n == ParseDigits(text, i, 0)
             d == ParseDigits(text, n.next + 1, 0)
         IN  IF n.next <= Len(text) /\ text[n.next] = 47
             THEN [val |-> Float([n |-> n.val.v, d |-> d.val.v]), next |-> d.next]
             ELSE n

ParseItems(text, i) ==
    IF text[i] = 93 THEN [val |-> <<>>, next |-> i + 1]
    ELSE IF text[i] = 44 THEN ParseItems(text, i + 2)
    ELSE LET item == ParseValue(text, i)
             rest == ParseItems(text, item.next)
         IN  [val |-> <<item.val>> \o rest.val, next |-> rest.next]

ParsePairs(text, i) ==
    IF text[i] = 125 THEN [val |-> <<>>, next |-> i + 1]
    ELSE IF text[i] = 44 THEN ParsePairs(text, i + 2)
    ELSE LET k == ParseChars(text, i + 1)
             item == ParseValue(text, k.next + 2)
             rest == ParsePairs(text, item.next)
         IN  [val |-> <<<<k.val, item.val>>>> \o rest.val, next |-> rest.next]

json_loads(s) == ParseValue(s.v, 1).val

-----------------------------------------------------------------------------
(* EncryptedType: Fernet under one key *)

StoreKey == "k1"

MaxIv == 1
IVs == 1..MaxIv

Raise(e) == [t |-> "raise", v |-> e]
IsRaise(x) == x.t = "raise"
InvalidToken == Raise("InvalidToken")

\* a Fernet token: version, IV, AES-CBC ciphertext, HMAC over the three
AesEncrypt(key, iv, data) == <<"aes", key, iv, data>>
Hmac(key, iv, body) == <<"hmac", key, iv, body>>
FernetEncrypt(key, iv, data) ==
    <<128, iv, AesEncrypt(key, iv, data), Hmac(key, iv, AesEncrypt(key, iv, data))>>

\* Fernet.decrypt: the token must be whole and its HMAC must verify
FernetVerifies(key, token) ==
    /\ Len(token) = 4
    /\ token[1] = 128
    /\ token[4] = Hmac(key, token[2], token[3])

FernetDecrypt(key, token) == token[3][4]

\* EncryptedType.encrypt(value)
encrypt(key, iv, value) ==
    IF value = None THEN None
    ELSE Bytes(FernetEncrypt(key, iv, Utf8Encode(value.v)))

\* EncryptedType.decrypt(value)
decrypt(key, value) ==
    IF value = None THEN None
    ELSE IF FernetVerifies(key, value.v) THEN Str(Utf8Decode(FernetDecrypt(key, value.v)))
    ELSE InvalidToken


-----------------------------------------------------------------------------
(* The candidates table and the Database operations *)

\* score = Column(Float): numbers are exact fractions n/d here
Rat(n, d) == [n |-> n, d |-> d]
Zero == Rat(0, 1)

EncryptedColumns == {"candidate_name", "candidate_email", "candidate_phone", "resume_text",
                     "skills", "education", "experience", "score_breakdown", "notes"}
StringColumns == {"candidate_name", "candidate_email", "candidate_phone", "notes"}

\* the value candidate_data[field] is encrypted to by add_candidate: nothing
\* is stored for a missing, None or empty value
encrypt_text_field(key, iv, value) ==
    IF Truthy(value) THEN encrypt(key, iv, value) ELSE None
encrypt_json_field(key, iv, value) ==
    IF Truthy(value) THEN encrypt(key, iv, json_dumps(value)) ELSE None

\* the row add_candidate builds from candidate_data; sender, subject, summary
\* and timestamp columns are left out
new_row(id, key, iv, candidate_data) ==
    [id |-> id,
     email_id |-> candidate_data.email_id,
     email_date |-> candidate_data.email_date,
     resume_filename |-> candidate_data.resume_filename,
     resume_hash |-> candidate_data.resume_hash,
     resume_size_bytes |-> candidate_data.resume_size_bytes,
     candidate_name |-> encrypt_text_field(key, iv, candidate_data.candidate_name),
     candidate_email |-> encrypt_text_field(key, iv, candidate_data.candidate_email),
     candidate_phone |-> encrypt_text_field(key, iv, candidate_data.candidate_phone),
     resume_text |-> encrypt_text_field(key, iv, candidate_data.resume_text),
     skills |-> encrypt_json_field(key, iv, candidate_data.skills),
     education |-> encrypt_json_field(key, iv, candidate_data.education),
     experience |-> encrypt_json_field(key, iv, candidate_data.experience),
     score |-> Zero,
     score_breakdown |-> encrypt_json_field(key, iv, candidate_data.score_breakdown),
     status |-> "new",
     tags |-> None,
     notes |-> None,
     is_parsed |-> FALSE,
     is_scored |-> FALSE,
     parse_error |-> None]

\* the unique constraints of the table: email_id, and resume_hash when not NULL
violates_unique(rows, row) ==
    \E i \in DOMAIN rows :
        \/ rows[i].email_id = row.email_id
        \/ (row.resume_hash # None /\ rows[i].resume_hash = row.resume_hash)

next_rowid(rows) == IF DOMAIN rows = {} THEN 1 ELSE Max(DOMAIN rows) + 1

\* Database.add_candidate: the row is committed, or the commit fails, is
\* rolled back and the exception is raised again
add_candidate(rows, key, iv, candidate_data) ==
    LET candidate == new_row(next_rowid(rows), key, iv, candidate_data)
    IN  IF violates_unique(rows, candidate)
        THEN [rows |-> rows, ret |-> Raise("IntegrityError")]
        ELSE [rows |-> (candidate.id :> candidate) @@ rows,
              ret |-> Num(candidate.id)]

\* Database.update_candidate_status(session, candidate_id, status, notes)
update_candidate_status(rows, key, iv, candidate_id, status, notes) ==
    IF candidate_id \in DOMAIN rows
    THEN [rows |-> [rows EXCEPT ![candidate_id] =
                       [@ EXCEPT !.status = status,
                                 !.notes = IF Truthy(notes) THEN encrypt(key, iv, notes) ELSE @]],
          ret |-> TRUE]
    ELSE [rows |-> rows, ret |-> FALSE]

\* save_candidate_notes(candidate_id, notes) of app.py
save_candidate_notes(rows, key, iv, candidate_id, notes) ==
    IF candidate_id \in DOMAIN rows
    THEN [rows EXCEPT ![candidate_id].notes =
             IF Truthy(notes) THEN encrypt(key, iv, notes) ELSE None]
    ELSE rows

\* cipher.decrypt(column) if column else None
decrypt_text_column(key, column) ==
    IF Truthy(column) THEN decrypt(key, column) ELSE None

\* json.loads(cipher.decrypt(column)) if column else the empty collection
loads_decrypted(decrypted) == IF IsRaise(decrypted) THEN decrypted ELSE json_loads(decrypted)
decrypt_json_column(key, column, empty) ==
    IF ~Truthy(column) THEN empty ELSE loads_decrypted(decrypt(key, column))

\* the dictionary to_dict returns, or the exception of the first column
\* that did not decrypt
dict_or_raise(d) ==
    IF \E f \in EncryptedColumns \ {"resume_text"} : IsRaise(d[f])
    THEN InvalidToken
    ELSE [t |-> "record", v |-> d]

\* Candidate.to_dict(cipher).  It has no resume_text entry, and tags, which
\* no operation writes, read as [].
Candidate_to_dict(row, key) ==
    dict_or_raise([id |-> row.id,
                   email_id |-> row.email_id,
                   email_date |-> isoformat(row.email_date),
                   resume_filename |-> row.resume_filename,
                   resume_size_bytes |-> row.resume_size_bytes,
                   candidate_name |-> decrypt_text_column(key, row.candidate_name),
                   candidate_email |-> decrypt_text_column(key, row.candidate_email),
                   candidate_phone |-> decrypt_text_column(key, row.candidate_phone),
                   skills |-> decrypt_json_column(key, row.skills, List(<<>>)),
                   education |-> decrypt_json_column(key, row.education, List(<<>>)),
                   experience |-> decrypt_json_column(key, row.experience, List(<<>>)),
                   score |-> row.score,
                   score_breakdown |-> decrypt_json_column(key, row.score_breakdown, Dict(<<>>)),
                   status |-> row.status,
                   tags |-> List(<<>>),
                   notes |-> decrypt_text_column(key, row.notes),
                   is_parsed |-> row.is_parsed,
                   is_scored |-> row.is_scored,
                   parse_error |-> row.parse_error])

-----------------------------------------------------------------------------
(* CandidateScorer *)

RECURSIVE GCD(_, _)
GCD(a, b) == IF b = 0 THEN a ELSE GCD(b, a % b)

Norm(r) == LET g == GCD(r.n, r.d) IN IF g = 0 THEN r ELSE Rat(r.n \div g, r.d \div g)
RAdd(a, b) == Norm(Rat(a.n * b.d + b.n * a.d, a.d * b.d))
RMul(a, b) == Norm(Rat(a.n * b.n, a.d * b.d))
RLeq(a, b) == a.n * b.d <= b.n * a.d
RMin(a, b) == IF RLeq(a, b) THEN a ELSE b
One == Rat(1, 1)

LowerCode(c) == IF c >= 65 /\ c <= 90 THEN c + 32 ELSE c
LowerText(s) == AsSeq([i \in 1..Len(s) |-> LowerCode(s[i])])
\* the texts of a list as they are written, capitals kept
SameCaseAll(l) == AsSeq([i \in 1..Len(l) |-> l[i].v])

LowerAll(l) == AsSeq([i \in 1..Len(l) |-> LowerText(l[i].v)])

\* dict.get(key, default) on a dictionary read from JSON
DictGet(d, key, default) ==
    IF \E i \in 1..Len(d.v) : d.v[i][1] = key
    THEN d.v[CHOOSE i \in 1..Len(d.v) : d.v[i][1] = key][2]
    ELSE default

\* candidate.get(key, default) on the dictionary of Candidate.to_dict
Get(candidate, key, default) == IF key \in DOMAIN candidate THEN candidate[key] ELSE default

KeyText == <<116, 101, 120, 116>>
KeyYears == <<121, 101, 97, 114, 115>>

\* sum(1 for x in wanted if x in have)
Matches(wanted, have) == Cardinality({i \in 1..Len(wanted) : wanted[i] \in Range(have)})

\* _score_skills(candidate)
score_skills(job_profile, candidate) ==
    LET required_skills == LowerAll(job_profile.skills.required)
        preferred_skills == LowerAll(job_profile.skills.preferred)
        nice_to_have == LowerAll(job_profile.skills.nice_to_have)
        candidate_skills == LowerAll(Get(candidate, "skills", List(<<>>)).v)
        required_matches == Matches(required_skills, candidate_skills)
        preferred_matches == Matches(preferred_skills, candidate_skills)
        nice_matches == Matches(nice_to_have, candidate_skills)
        part(matches, wanted, tenths) ==
            IF wanted # <<>> THEN RMul(Rat(matches, Len(wanted)), Rat(tenths, 10)) ELSE Zero
        score == RAdd(RAdd(part(required_matches, required_skills, 6),
                           part(preferred_matches, preferred_skills, 3)),
                      part(nice_matches, nice_to_have, 1))
        total_relevant == required_matches + preferred_matches + nice_matches
        with_bonus == IF total_relevant > 5 THEN RMin(One, RMul(score, Rat(11, 10))) ELSE score
    IN  IF required_skills = <<>> /\ preferred_skills = <<>>
        THEN Rat(1, 2)
        ELSE RMin(One, with_bonus)

\* _score_education(candidate)
score_education(job_profile, candidate) ==
    LET required_edu == LowerAll(job_profile.education.required)
        preferred_edu == LowerAll(job_profile.education.preferred)
        candidate_education == Get(candidate, "education", List(<<>>)).v
        education_text ==
            JoinWith(AsSeq([i \in 1..Len(candidate_education) |->
                         LowerText(DictGet(candidate_education[i], KeyText, Str(<<>>)).v)]), <<32>>)
        required_score ==
            IF \E i \in 1..Len(required_edu) : Contains(education_text, required_edu[i])
            THEN Rat(7, 10) ELSE Zero
        preferred_score ==
            IF \E i \in 1..Len(preferred_edu) : Contains(education_text, preferred_edu[i])
            THEN Rat(3, 10) ELSE Zero
    IN  IF education_text = <<>> THEN Zero
        ELSE RMin(One, RAdd(required_score, preferred_score))

IsDigit(c) == c >= 48 /\ c <= 57
IsSpace(c) == c \in {32, 9, 10, 13}

RECURSIVE SkipDigits(_, _)
SkipDigits(text, i) == IF i <= Len(text) /\ IsDigit(text[i]) THEN SkipDigits(text, i + 1) ELSE i

RECURSIVE SkipSpaces(_, _)
SkipSpaces(text, i) == IF i <= Len(text) /\ IsSpace(text[i]) THEN SkipSpaces(text, i + 1) ELSE i

StartsAt(text, i, word) ==
    i + Len(word) - 1 <= Len(text) /\ LowerText(SubSeq(text, i, i + Len(word) - 1)) = word

\* re.compile(r'(\d+)\+?\s*years?\s*(?:of\s*)?experience', re.IGNORECASE)
\* matched at index i, piece by piece: the index after the match, 0 when
\* there is none
MatchExperience(text, i) ==
    IF StartsAt(text, i, <<101, 120, 112, 101, 114, 105, 101, 110, 99, 101>>) THEN i + 10 ELSE 0
MatchOf(text, i) ==
    MatchExperience(text, IF StartsAt(text, i, <<111, 102>>) THEN SkipSpaces(text, i + 2) ELSE i)
MatchS(text, i) ==
    MatchOf(text, SkipSpaces(text, IF i <= Len(text) /\ LowerCode(text[i]) = 115 THEN i + 1 ELSE i))
MatchYear(text, i) ==
    IF StartsAt(text, i, <<121, 101, 97, 114>>) THEN MatchS(text, i + 4) ELSE 0
MatchPlus(text, i) ==
    MatchYear(text, SkipSpaces(text, IF i <= Len(text) /\ text[i] = 43 THEN i + 1 ELSE i))
YearsMatchAt(text, i) ==
    IF SkipDigits(text, i) > i THEN MatchPlus(text, SkipDigits(text, i)) ELSE 0

\* years_pattern.search(resume_text): float(match.group(1)), or 0.0
FirstMatch(text, starts) ==
    IF starts = {} THEN 0
    ELSE ParseDigits(text, CHOOSE i \in starts : \A j \in starts : i <= j, 0).val.v
years_in_text(text) == FirstMatch(text, {i \in 1..Len(text) : YearsMatchAt(text, i) > 0})

RECURSIVE SumYears(_)
SumYears(experience) ==
    IF experience = <<>> THEN 0
    ELSE DictGet(Head(experience), KeyYears, Num(0)).v + SumYears(Tail(experience))

\* _get_total_experience_years(candidate)
get_total_experience_years(candidate) ==
    LET experience == Get(candidate, "experience", List(<<>>)).v
    IN  IF experience = <<>>
        THEN years_in_text(Get(candidate, "resume_text", Str(<<>>)).v)
        ELSE SumYears(experience)

\* x / y of Python: ZeroDivisionError when y is 0
ZeroDivisionError == Raise("ZeroDivisionError")
TrueDiv(x, y) == IF y = 0 THEN ZeroDivisionError ELSE Norm(Rat(x, y))

\* a score that tests the minimum before the preferred years
years_score_min_first(total_years, min_years, pref_years) ==
    IF total_years >= min_years
    THEN IF TrueDiv(total_years - min_years, pref_years - min_years) = ZeroDivisionError
         THEN ZeroDivisionError
         ELSE RAdd(Rat(7, 10),
                   RMul(TrueDiv(total_years - min_years, pref_years - min_years), Rat(3, 10)))
    ELSE IF min_years > 0 THEN RMul(Rat(total_years, min_years), Rat(7, 10))
    ELSE Rat(1, 2)

\* _score_experience(candidate): the score of the years, or the exception of
\* a division
years_score(total_years, min_years, pref_years) ==
    IF total_years >= pref_years THEN One
    ELSE IF total_years >= min_years
    THEN IF TrueDiv(total_years - min_years, pref_years - min_years) = ZeroDivisionError
         THEN ZeroDivisionError
         ELSE RAdd(Rat(7, 10),
                   RMul(TrueDiv(total_years - min_years, pref_years - min_years), Rat(3, 10)))
    ELSE IF min_years > 0
    THEN IF TrueDiv(total_years, min_years) = ZeroDivisionError
         THEN ZeroDivisionError
         ELSE RMul(TrueDiv(total_years, min_years), Rat(7, 10))
    ELSE Rat(1, 2)

domain_score(required_domains, resume_text) ==
    IF required_domains # <<>>
    THEN Rat(Cardinality({i \in 1..Len(required_domains) : Contains(resume_text, required_domains[i])}),
             Len(required_domains))
    ELSE One

combine_scores(the_years_score, the_domain_score) ==
    IF the_years_score = ZeroDivisionError THEN ZeroDivisionError
    ELSE RMin(One, RAdd(RMul(the_years_score, Rat(7, 10)), RMul(the_domain_score, Rat(3, 10))))

score_experience(job_profile, candidate) ==
    combine_scores(years_score(get_total_experience_years(candidate),
                               job_profile.experience.minimum_years,
                               job_profile.experience.preferred_years),
                   domain_score(LowerAll(job_profile.experience.required_domains),
                                LowerText(Get(candidate, "resume_text", Str(<<>>)).v)))

\* score_candidate(candidate): (total_score * 100, breakdown), or the
\* exception of to_dict
weighted(x, w) == RMul(x, Rat(w, 100))
breakdown_entry(x, w) == [score |-> x, weight |-> w, weighted_score |-> weighted(x, w)]

total_and_breakdown(weights, skills_score, education_score, experience_score, total_score) ==
    [t |-> "scored",
     v |-> [total |-> RMul(total_score, Rat(100, 1)),
            breakdown |-> [skills |-> breakdown_entry(skills_score, weights.skills),
                           education |-> breakdown_entry(education_score, weights.education),
                           experience |-> breakdown_entry(experience_score, weights.experience),
                           total_score |-> RMul(total_score, Rat(100, 1))]]]

\* a total that leaves the education factor out
score_factors_less(weights, skills_score, education_score, experience_score) ==
    total_and_breakdown(weights, skills_score, education_score, experience_score,
                        RAdd(weighted(skills_score, weights.skills),
                             weighted(experience_score, weights.experience)))

score_factors(weights, skills_score, education_score, experience_score) ==
    total_and_breakdown(weights, skills_score, education_score, experience_score,
                        RAdd(RAdd(weighted(skills_score, weights.skills),
                                  weighted(education_score, weights.education)),
                             weighted(experience_score, weights.experience)))

score_dict(job_profile, read) ==
    IF IsRaise(read) THEN read
    ELSE score_factors(job_profile.weights,
                       score_skills(job_profile, read.v),
                       score_education(job_profile, read.v),
                       score_experience(job_profile, read.v))

score_candidate(job_profile, key, row) == score_dict(job_profile, Candidate_to_dict(row, key))

\* the breakdown as json.dumps writes it
KeyScore == <<115, 99, 111, 114, 101>>
KeyWeight == <<119, 101, 105, 103, 104, 116>>
KeyWeighted == <<119, 101, 105, 103, 104, 116, 101, 100>>
KeySkills == <<115, 107, 105, 108, 108, 115>>
KeyEducation == <<101, 100, 117>>
KeyExperience == <<101, 120, 112>>
KeyTotal == <<116, 111, 116, 97, 108>>

breakdown_json(breakdown) ==
    LET entry(e) == Dict(<< <<KeyScore, Float(e.score)>>, <<KeyWeight, Num(e.weight)>>,
                            <<KeyWeighted, Float(e.weighted_score)>> >>)
    IN  Dict(<< <<KeySkills, entry(breakdown.skills)>>,
                <<KeyEducation, entry(breakdown.education)>>,
                <<KeyExperience, entry(breakdown.experience)>>,
                <<KeyTotal, Float(breakdown.total_score)>> >>)

\* Database.log_processing: one more row in processing_logs
db_log_processing(logs, email_id, action, status) == Append(logs, LogEntry(email_id, action, status))

\* a turn that has assigned a score to the row before the attempt fails
store_score_early(st, key, iv, candidate, scored) ==
    IF IsRaise(scored)
    THEN [rows |-> [st.rows EXCEPT ![candidate.id] = [candidate EXCEPT !.score = One]],
          logs |-> db_log_processing(st.logs, candidate.email_id, "score", "failed"),
          success_count |-> st.success_count, error_count |-> st.error_count + 1]
    ELSE [rows |-> [st.rows EXCEPT ![candidate.id] =
                       [candidate EXCEPT
                           !.score = scored.v.total,
                           !.score_breakdown =
                               encrypt(key, iv, json_dumps(breakdown_json(scored.v.breakdown))),
                           !.is_scored = TRUE]],
          logs |-> db_log_processing(st.logs, candidate.email_id, "score", "success"),
          success_count |-> st.success_count + 1, error_count |-> st.error_count]

\* one turn of the loop of score_all_pending: score_candidate raises before
\* candidate.score is assigned, and neither json.dumps nor encrypt raises
\* between that assignment and is_scored = True
store_score(st, key, iv, candidate, scored) ==
    IF IsRaise(scored)
    THEN [rows |-> st.rows,
          logs |-> db_log_processing(st.logs, candidate.email_id, "score", "failed"),
          success_count |-> st.success_count, error_count |-> st.error_count + 1]
    ELSE [rows |-> [st.rows EXCEPT ![candidate.id] =
                       [candidate EXCEPT
                           !.score = scored.v.total,
                           !.score_breakdown =
                               encrypt(key, iv, json_dumps(breakdown_json(scored.v.breakdown))),
                           !.is_scored = TRUE]],
          logs |-> db_log_processing(st.logs, candidate.email_id, "score", "success"),
          success_count |-> st.success_count + 1, error_count |-> st.error_count]

score_one(st, key, iv, job_profile, id) ==
    store_score(st, key, iv, st.rows[id], score_candidate(job_profile, key, st.rows[id]))

RECURSIVE score_loop(_, _, _, _, _)
score_loop(st, key, iv, job_profile, ids) ==
    IF ids = {} THEN st
    ELSE LET id == CHOOSE i \in ids : \A j \in ids : i <= j
         IN  score_loop(score_one(st, key, iv, job_profile, id), key, iv, job_profile, ids \ {id})

\* a query that takes every unscored row, parsed or not
pending_unscored(rows) == {i \in DOMAIN rows : ~rows[i].is_scored}

\* a query that takes every parsed row, scored or not
pending_parsed(rows) == {i \in DOMAIN rows : rows[i].is_parsed}

\* the rows score_all_pending queries: parsed and not yet scored
pending_for_scoring(rows) == {i \in DOMAIN rows : rows[i].is_parsed /\ ~rows[i].is_scored}

\* CandidateScorer.score_all_pending
score_all_pending(rows, logs, key, iv, job_profile) ==
    score_loop([rows |-> rows, logs |-> logs, success_count |-> 0, error_count |-> 0],
               key, iv, job_profile, pending_for_scoring(rows))


\* Database.purge_all_data: both tables emptied, or False and nothing changed
purge_all_data(rows, logs, ok) ==
    IF ok THEN [rows |-> <<>>, logs |-> <<>>, ret |-> TRUE]
    ELSE [rows |-> rows, logs |-> logs, ret |-> FALSE]

-----------------------------------------------------------------------------
(* export_candidates and show_candidate_list of app.py *)

\* decrypted = candidate.to_dict(db.cipher) for every row of the query
decrypt_rows(rows, key) == [i \in DOMAIN rows |-> Candidate_to_dict(rows[i], key)]

\* one line of the CSV; Education and Experience Years are left out
export_line(row, decrypted) ==
    [Name |-> decrypted.candidate_name,
     Email |-> decrypted.candidate_email,
     Phone |-> decrypted.candidate_phone,
     Score |-> row.score,
     Status |-> row.status,
     Skills |-> JoinWith([k \in DOMAIN decrypted.skills.v |-> decrypted.skills.v[k].v], <<44, 32>>),
     Resume |-> row.resume_filename,
     Received_Date |-> row.email_date,
     Notes |-> decrypted.notes]

\* one line of the table of candidates
list_line(row, decrypted) ==
    [ID |-> row.id,
     Name |-> decrypted.candidate_name,
     Email |-> decrypted.candidate_email,
     Score |-> row.score,
     Status |-> row.status,
     Date |-> row.email_date,
     Resume |-> row.resume_filename]

\* export_candidates(): the lines of the CSV offered for download, a warning
\* when the table is empty, or, when a to_dict raised, the error shown by the
\* except around the whole function in place of the download
export_candidates(rows, key) ==
    IF DOMAIN rows = {} THEN [t |-> "empty", v |-> {}]
    ELSE IF \E i \in DOMAIN rows : IsRaise(decrypt_rows(rows, key)[i])
    THEN [t |-> "error", v |-> {}]
    ELSE [t |-> "lines",
          v |-> {export_line(rows[i], decrypt_rows(rows, key)[i].v) : i \in DOMAIN rows}]

\* show_candidate_list(), with no filter set: the lines of the table, or the
\* error shown in their place.  The order of rows of equal score is the
\* database's; the lines are a set here.
show_candidate_list(rows, key) ==
    IF DOMAIN rows = {} THEN [t |-> "empty", v |-> {}]
    ELSE IF \E i \in DOMAIN rows : IsRaise(decrypt_rows(rows, key)[i])
    THEN [t |-> "error", v |-> {}]
    ELSE [t |-> "lines",
          v |-> {list_line(rows[i], decrypt_rows(rows, key)[i].v) : i \in DOMAIN rows}]

-----------------------------------------------------------------------------
(* The inputs of the operations *)

Text_n == Str(<<110>>)
Text_A == Str(<<65>>)
Text_mail == Str(<<97, 64, 98>>)
Text_p == Str(<<112>>)
Text_P == Str(<<80>>)
Text_s == Str(<<115>>)
Text_a == Str(<<97>>)
Text_bs == Str(<<66, 83>>)
Text_b == Str(<<98>>)

\* the notes a decision may carry
NoteInputs == {Str(<<>>), Text_n}
DbNoteInputs == {None, Str(<<>>), Text_n}

\* candidate_data dictionaries handed to add_candidate; a missing key is None
CandidateInput(email_id, content, name, text, skills) ==
    [email_id |-> email_id,
     email_date |-> Messages[email_id].received,
     resume_filename |-> Name_CV_John_pdf,
     resume_hash |-> calculate_file_hash(content),
     resume_size_bytes |-> 300000,
     candidate_name |-> name,
     candidate_email |-> IF name = None THEN None ELSE Text_mail,
     candidate_phone |-> None,
     resume_text |-> text,
     skills |-> skills,
     education |-> IF skills = None THEN None ELSE List(<< Dict(<< <<KeyText, Text_bs>> >>) >>),
     experience |-> IF skills = None THEN None ELSE List(<<>>),
     score_breakdown |-> IF skills = None THEN None ELSE Dict(<<>>)]

CandidateInputs ==
    {CandidateInput("m1", "d1", Text_A, Text_s, List(<<Text_P, Text_a>>)),
     CandidateInput("m2", "d1", Text_A, None, List(<<>>)),
     CandidateInput("m2", "d4", Str(<<>>), Str(<<>>), List(<<>>)),
     CandidateInput("m3", "d3", None, None, None)}

\* two candidates with a name, an email, a resume text and skills
BatchInputs ==
    {CandidateInput("m1", "d1", Text_A, Text_s, List(<<Text_P, Text_a>>)),
     CandidateInput("m2", "d4", Text_P, Text_s, List(<<Text_s>>))}

\* one candidate with skills
UnscoredInputs == {CandidateInput("m1", "d1", Text_A, Text_s, List(<<Text_P, Text_a>>))}

\* the columns altered where several rows are read in one batch
BatchColumns == {"candidate_name", "skills"}
BatchKinds == {"flip", "rekey"}

JobProfile(ws, we, wx, required, preferred) ==
    [weights |-> [skills |-> ws, education |-> we, experience |-> wx],
     skills |-> [required |-> required, preferred |-> preferred, nice_to_have |-> <<>>],
     education |-> [required |-> <<Text_b>>, preferred |-> <<>>],
     experience |-> [minimum_years |-> 2, preferred_years |-> 5, required_domains |-> <<Text_s>>]]

JobProfiles == {JobProfile(60, 20, 20, <<Text_p, Text_s>>, <<Text_a>>)}

RowIds == {1, 2}

\* saved attachments that passed _is_valid_attachment, as _select_best_resume
\* reads them: name and size
Name_Resume_doc == <<"R","e","s","u","m","e",".","d","o","c">>
Name_cv_pdf == <<"c","v",".","p","d","f">>
Name_vitae_PDF == <<"v","i","t","a","e",".","P","D","F">>
Name_a_pdf == <<"a",".","p","d","f">>

SavedAttachments ==
    {att \in {[name |-> Name_Resume_doc, size |-> 50000],
              [name |-> Name_cv_pdf, size |-> 50000],
              [name |-> Name_vitae_PDF, size |-> 100001],
              [name |-> Name_cv_resume_docx, size |-> 100000],
              [name |-> Name_a_pdf, size |-> 200001],
              [name |-> Name_a_pdf, size |-> 100000],
              [name |-> Name_Resume_doc, size |-> 200001],
              [name |-> Name_cv_pdf, size |-> 200001]} : is_valid_attachment(att)}

MaxAtt == 3
AttachmentLists == UNION {[1..n -> SavedAttachments] : n \in 2..MaxAtt}

\* the attachments _is_valid_attachment is asked about: names with and
\* without an extension of the list, an exclusion term, a resume-like term,
\* and sizes around the two limits
Name_Agenda_PDF == <<"A","g","e","n","d","a",".","P","D","F">>
Name_cv_form_pdf == <<"c","v","_","f","o","r","m",".","p","d","f">>
Name_Resume_Template_docx ==
    <<"R","e","s","u","m","e","_","T","e","m","p","l","a","t","e",".","d","o","c","x">>
Name_photo_png == <<"p","h","o","t","o",".","p","n","g">>
Name_resume_txt == <<"r","e","s","u","m","e",".","t","x","t">>
Name_resume == <<"r","e","s","u","m","e">>
Name_dot_pdf == <<".","p","d","f">>
Name_Bio_DOC == <<"B","i","o",".","D","O","C">>

FilterNames ==
    {Name_John_Resume_pdf, Name_cover_letter_docx, Name_NDA_pdf, Name_portfolio_pdf,
     Name_Agenda_PDF, Name_cv_form_pdf, Name_Resume_Template_docx, Name_photo_png,
     Name_resume_txt, Name_resume, Name_dot_pdf, Name_Bio_DOC, Name_a_pdf}

FilterSizes == {0, 49999, 50000, 50001, max_attachment_size, max_attachment_size + 1}

FilterInputs == {[name |-> n, size |-> s] : n \in FilterNames, s \in FilterSizes}

\* the skill lists _score_skills compares: those of the job profile and
\* those of a candidate, none with the same skill twice
Text_python == Str(<<112, 121, 116, 104, 111, 110>>)
Text_Python == Str(<<80, 121, 116, 104, 111, 110>>)
Text_PYTHON == Str(<<80, 89, 84, 72, 79, 78>>)
Text_sql == Str(<<115, 113, 108>>)
Text_aws == Str(<<97, 119, 115>>)
Text_docker == Str(<<100, 111, 99, 107, 101, 114>>)
Text_c == Str(<<99>>)
Text_d == Str(<<100>>)
Text_e == Str(<<101>>)
Text_f == Str(<<102>>)
Text_g == Str(<<103>>)
Text_h == Str(<<104>>)

RequiredSkillLists == {<<>>, <<Text_python, Text_sql>>, <<Text_Python>>,
                       <<Text_a, Text_b, Text_c, Text_d>>}
PreferredSkillLists == {<<>>, <<Text_aws>>, <<Text_e, Text_f>>}
NiceToHaveLists == {<<>>, <<Text_docker>>, <<Text_g, Text_h>>}
CandidateSkillLists ==
    {<<>>,
     <<Text_python, Text_aws, Text_docker>>,
     <<Text_PYTHON, Text_sql>>,
     <<Text_a, Text_b, Text_c, Text_d, Text_e, Text_f>>,
     <<Text_a, Text_b, Text_c, Text_d, Text_e, Text_f, Text_g, Text_h>>,
     <<Text_a, Text_b, Text_c, Text_e, Text_f, Text_g, Text_h>>}

SkillInputs ==
    {[t |-> "args",
      job_profile |-> [skills |-> [required |-> r, preferred |-> p, nice_to_have |-> n]],
      candidate |-> [skills |-> List(c)]] :
        r \in RequiredSkillLists, p \in PreferredSkillLists, n \in NiceToHaveLists,
        c \in CandidateSkillLists}

\* the years a job asks for and a candidate has; the job with and without a
\* required domain, the candidate's text naming it or not
MaxYears == 4

ExperienceInputs ==
    {[t |-> "args",
      job_profile |-> [experience |-> [minimum_years |-> mn, preferred_years |-> pf,
                                       required_domains |-> ds]],
      candidate |-> [experience |-> List(<< Dict(<< <<KeyYears, Num(y)>> >>) >>),
                     resume_text |-> tx]] :
        mn \in 0..MaxYears, pf \in 0..MaxYears, y \in 0..MaxYears,
        ds \in {<<>>, <<Text_s>>}, tx \in {Text_s, Text_a}}

\* the weights a job profile may carry, and the arguments of score_candidate
WeightInputs == {0, 20, 60, 100}
\* "3 years of experience s": a raw text with the phrase and the domain s
Text_years == Str(<<51, 32, 121, 101, 97, 114, 115, 32, 111, 102, 32,
                    101, 120, 112, 101, 114, 105, 101, 110, 99, 101, 32, 115>>)

ScoreInputs ==
    {[t |-> "args",
      job_profile |-> JobProfile(ws, we, wx, <<Text_p, Text_s>>, <<Text_a>>),
      candidate_data |-> candidate_data] :
        ws \in WeightInputs, we \in WeightInputs, wx \in WeightInputs,
        candidate_data \in CandidateInputs
            \cup {CandidateInput("m1", "d1", Text_A, Text_years, List(<<Text_P, Text_a>>))}}

\* what may happen to the bytes of a stored column outside the program
TamperKinds == {"flip", "rekey", "cut", "empty"}
MaxTampered == 1

tampered(column, kind) ==
    IF kind = "flip"
    THEN Bytes([column.v EXCEPT ![3] = AesEncrypt(@[2], @[3], <<0>> \o @[4])])
    ELSE IF kind = "rekey"
    THEN Bytes(FernetEncrypt("k2", column.v[2], column.v[3][4]))
    ELSE IF kind = "cut" THEN Bytes(SubSeq(column.v, 1, 3))
    ELSE Bytes(<<>>)

\* a column holds bytes that Fernet under the store's key accepts
valid_ciphertext(column) == column.t = "bytes" /\ FernetVerifies(StoreKey, column.v)

-----------------------------------------------------------------------------
(* Startup: config = Config(), db = Database(), candidate_scorer = CandidateScorer() *)

\* AES_KEY in the environment: not set or empty; text that is not base64;
\* base64 of something that is no Fernet key; base64 of a Fernet key
AesKeySettings == {"missing", "bad_base64", "not_a_key", "valid"}

\* job_profile.yml: not there; not YAML; a profile
JobProfileFiles == {"missing", "invalid", "valid"}

Environments ==
    {[t |-> "env", v |-> [AES_KEY |-> k, job_profile_file |-> f]] :
        k \in AesKeySettings, f \in JobProfileFiles}

\* Config._validate_env_vars: AES_KEY must be set and not empty
validate_env_vars(e) == IF e.AES_KEY = "missing" THEN Raise("ValueError") ELSE None

\* Config.aes_key: base64.b64decode(AES_KEY), or a key made by
\* Fernet.generate_key() when the decoding raises
GeneratedKey == "generated"
aes_key(e) == IF e.AES_KEY = "bad_base64" THEN GeneratedKey
              ELSE IF e.AES_KEY = "valid" THEN StoreKey
              ELSE "no key"

\* EncryptedType(key): Fernet(key) raises ValueError unless key is a Fernet key
EncryptedType(key) == IF key \in {StoreKey, GeneratedKey} THEN Str(key) ELSE Raise("ValueError")

\* the job profile {} as score_candidate and the three factors read it,
\* through the defaults of their .get calls
EmptyJobProfile ==
    [weights |-> [skills |-> 60, education |-> 20, experience |-> 20],
     skills |-> [required |-> <<>>, preferred |-> <<>>, nice_to_have |-> <<>>],
     education |-> [required |-> <<>>, preferred |-> <<>>],
     experience |-> [minimum_years |-> 0, preferred_years |-> 0, required_domains |-> <<>>]]

\* CandidateScorer._load_job_profile: {} when the file cannot be opened or read
load_job_profile(e) ==
    IF e.job_profile_file = "valid"
    THEN JobProfile(60, 20, 20, <<Text_p, Text_s>>, <<Text_a>>)
    ELSE EmptyJobProfile

\* the imports of app.py: the process runs with a cipher and a job profile,
\* or ends in the first exception raised
startup(e) ==
    IF IsRaise(validate_env_vars(e)) THEN validate_env_vars(e)
    ELSE IF IsRaise(EncryptedType(aes_key(e))) THEN EncryptedType(aes_key(e))
    ELSE [t |-> "running",
          v |-> [cipher_key |-> aes_key(e), job_profile |-> load_job_profile(e)]]

\* the rows handed to the scorer of a started process
StartedScoreInputs ==
    {[t |-> "args", candidate_data |-> candidate_data] : candidate_data \in CandidateInputs}

-----------------------------------------------------------------------------
(* Config: get_setting and update_setting over settings.json *)

\* key.split('.'): the parts of key between the dots
RECURSIVE Split(_, _)
Split(key, sep) ==
    IF \A i \in 1..Len(key) : key[i] # sep THEN <<key>>
    ELSE LET i == CHOOSE k \in 1..Len(key) : key[k] = sep /\ \A h \in 1..(k - 1) : key[h] # sep
         IN  <<SubSeq(key, 1, i - 1)>> \o Split(SubSeq(key, i + 1, Len(key)), sep)

\* the loop of get_setting over the parts of the key
RECURSIVE get_path(_, _, _)
get_path(value, keys, default) ==
    IF keys = <<>> THEN (IF value # None THEN value ELSE default)
    ELSE IF value.t = "dict" THEN get_path(DictGet(value, Head(keys), None), Tail(keys), default)
    ELSE default

\* Config.get_setting(key, default)
get_setting(the_settings, key, default) == get_path(the_settings, Split(key, 46), default)

\* settings[k] = value on a dict: the value of k is replaced where k is a key,
\* and k is added after the last key where it is not
DictSet(d, k, value) ==
    IF \E i \in 1..Len(d.v) : d.v[i][1] = k
    THEN Dict([i \in 1..Len(d.v) |-> IF d.v[i][1] = k THEN <<k, value>> ELSE d.v[i]])
    ELSE Dict(Append(d.v, <<k, value>>))

\* the loop of update_setting and the assignment after it: a part of the key
\* that is missing gets {} and the loop goes into it; 'k not in settings',
\* settings[k] and settings[k] = value, one of them, raise TypeError on what
\* is no dict (a str, a number, a list)
RECURSIVE set_path(_, _, _)
set_path(the_settings, keys, value) ==
    IF the_settings.t # "dict" THEN Raise("TypeError")
    ELSE IF Len(keys) = 1 THEN DictSet(the_settings, keys[1], value)
    ELSE LET inner == set_path(DictGet(the_settings, Head(keys), Dict(<<>>)), Tail(keys), value)
         IN  IF IsRaise(inner) THEN inner ELSE DictSet(the_settings, Head(keys), inner)

\* Config.update_setting(key, value), with save_settings: json.dump to the
\* file (its indentation left out).  Nothing is written when the update raises.
update_setting(the_settings, file, key, value) ==
    LET updated == set_path(the_settings, Split(key, 46), value)
    IN  IF IsRaise(updated)
        THEN [settings |-> the_settings, file |-> file, ret |-> updated]
        ELSE [settings |-> updated, file |-> json_dumps(updated), ret |-> None]

\* settings.json as the process finds it: {"f": "t", "l": {"v": "I"}}, for
\* folder_id and logging.level
SettingsJson ==
    Str(<<123, 34, 102, 34, 58, 32, 34, 116, 34, 44, 32,
          34, 108, 34, 58, 32, 123, 34, 118, 34, 58, 32, 34, 73, 34, 125, 125>>)

\* dotted keys: f, l.v, n.m, f.x
SettingKeys == {<<102>>, <<108, 46, 118>>, <<110, 46, 109>>, <<102, 46, 120>>}

SettingValues == {Str(<<65>>), Num(7), Dict(<<>>)}

SettingDefaults == {None, Str(<<100>>)}

-----------------------------------------------------------------------------
(* The state machine *)

\* Every public operation is an action.  run_sync_pipeline of app.py calls
\* sync_folder, parse_all_pending and score_all_pending one after the other,
\* each committing its own writes: a run of the pipeline is three steps here.

NoCall == [op |-> "none", arg |-> <<>>, ret |-> <<>>]
Call(op, arg, ret) == [op |-> op, arg |-> arg, ret |-> ret]

\* the stores are empty; sel_in, sc_in, att_in and sk_in hold the arguments
\* of the functions that are also checked on their own, env what the process
\* finds when it is started
InitAll(attachment_lists, score_inputs, attachments, skill_inputs, envs) ==
    /\ fs = <<>>
    /\ processing_log = <<>>
    /\ candidates = <<>>
    /\ processing_logs = <<>>
    /\ last = NoCall
    /\ sel_in \in attachment_lists
    /\ sel_out = None
    /\ sc_in \in score_inputs
    /\ sc_out = None
    /\ att_in \in attachments
    /\ att_out = None
    /\ sk_in \in skill_inputs
    /\ sk_out = None
    /\ env \in envs
    /\ app = None
    /\ settings = json_loads(SettingsJson)
    /\ settings_file = SettingsJson

InitWith(attachment_lists, score_inputs) ==
    InitAll(attachment_lists, score_inputs, {None}, {None}, {None})

Init == InitWith({<<>>}, {None})

fn_vars == <<att_in, att_out, sk_in, sk_out>>
start_vars == <<env, app>>
config_vars == <<settings, settings_file>>
pure_vars == <<sel_in, sel_out, sc_in, sc_out, fn_vars, start_vars, config_vars>>
db_vars == <<candidates, processing_logs>>
fs_vars == <<fs, processing_log>>

\* email_ingestor.sync_folder(folder_id) over one of the message lists
SyncFolder(lists, may_fail, max_log) ==
    \E reachable \in BOOLEAN :
      \E msgs \in (IF reachable THEN lists ELSE {<<>>}) :
        \E faults \in FaultPlans(msgs, may_fail) :
          /\ Len(processing_log) + Len(msgs) <= max_log
          /\ LET r == sync_folder(fs, processing_log, reachable, msgs, faults)
             IN  /\ fs' = r.fs
                 /\ processing_log' = r.log
                 /\ last' = Call("sync_folder",
                                 [reachable |-> reachable,
                                  msgs |-> msgs,
                                  faults |-> faults,
                                  clean |-> reachable /\ \A i \in DOMAIN faults : faults[i] = "none"],
                                 <<r.processed_count, r.error_count>>)
          /\ UNCHANGED <<db_vars, pure_vars>>

\* resume_parser.parse_all_pending(), the analyzer failing on the documents
\* of the records in failing
ParsePass(max_log, failures) ==
    \E failing \in failures :
      /\ Len(processing_log) + Len(SelectSeq(list_all_candidates(fs), IsUnparsed)) <= max_log
      /\ \E r \in {parse_all_pending(fs, processing_log,
                                       [e \in EmailIds |-> IF e \in failing THEN "error" ELSE "ok"])} :
             /\ fs' = r.fs
             /\ processing_log' = r.log
             /\ last' = Call("parse_all_pending", [failing |-> failing],
                             <<r.success_count, r.error_count>>)
      /\ UNCHANGED <<db_vars, pure_vars>>

\* resume_parser.parse_all_pending(), the analyzer failing on any of the
\* documents it is given
ParseAllPending(max_log) ==
    ParsePass(max_log, SUBSET {e \in EmailIds : has_metadata(fs, e)
                                                   /\ ~load_candidate_metadata(fs, e).is_parsed})

\* the resume file of a record is gone from candidates/<email_id>/attachments
\* when parse_all_pending looks for it: it was removed outside the program
RemoveAttachment ==
    \E e \in EmailIds :
      /\ has_metadata(fs, e)
      /\ attachment_file(e, load_candidate_metadata(fs, e).resume_filename) \in DOMAIN fs
      /\ fs' = [p \in DOMAIN fs \ {attachment_file(e, load_candidate_metadata(fs, e).resume_filename)}
                   |-> fs[p]]
      /\ last' = Call("remove_attachment", [email_id |-> e], <<>>)
      /\ UNCHANGED <<processing_log, db_vars, pure_vars>>

\* file_storage.update_candidate_status(email_id, status, notes, tags)
FsUpdateCandidateStatus(email_ids, decisions) ==
    \E email_id \in email_ids, status \in Statuses, d \in decisions :
      LET r == fs_update_candidate_status(fs, email_id, status, d.notes, d.tags)
      IN  /\ fs' = r.fs
          /\ last' = Call("fs_update_candidate_status",
                          [email_id |-> email_id, status |-> status,
                           notes |-> d.notes, tags |-> d.tags,
                           from |-> IF has_metadata(fs, email_id)
                                    THEN load_candidate_metadata(fs, email_id).status
                                    ELSE "none"],
                          r.ret)
          /\ UNCHANGED <<processing_log, db_vars, pure_vars>>

\* db.add_candidate(session, candidate_data)
AddCandidate(inputs) ==
    \E candidate_data \in inputs, iv \in IVs :
      LET r == add_candidate(candidates, StoreKey, iv, candidate_data)
      IN  /\ candidates' = r.rows
          /\ last' = Call("add_candidate", candidate_data, r.ret)
          /\ UNCHANGED <<processing_logs, fs_vars, pure_vars>>

\* the Interested, Pass and Reset buttons: db.update_candidate_status
UpdateCandidateStatus(ids, note_inputs) ==
    \E candidate_id \in ids, status \in Statuses, notes \in note_inputs, iv \in IVs :
      LET r == update_candidate_status(candidates, StoreKey, iv, candidate_id, status, notes)
      IN  /\ candidates' = r.rows
          /\ last' = Call("update_candidate_status",
                          [candidate_id |-> candidate_id, status |-> status, notes |-> notes,
                           from |-> IF candidate_id \in DOMAIN candidates
                                    THEN candidates[candidate_id].status
                                    ELSE "none"],
                          r.ret)
          /\ UNCHANGED <<processing_logs, fs_vars, pure_vars>>

\* the Save Notes button
SaveCandidateNotes(ids, note_inputs) ==
    \E candidate_id \in ids, notes \in note_inputs, iv \in IVs :
      /\ candidates' = save_candidate_notes(candidates, StoreKey, iv, candidate_id, notes)
      /\ last' = Call("save_candidate_notes",
                      [candidate_id |-> candidate_id, notes |-> notes], <<>>)
      /\ UNCHANGED <<processing_logs, fs_vars, pure_vars>>

\* candidate_scorer.score_all_pending().  The session is opened and the
\* pending rows are queried outside every try: when the database cannot be
\* read, the exception of the query leaves the function.  The call is then
\* recorded with the exception in arg.raised and nothing returned.
ScoreAllPending(store_states) ==
    \E job_profile \in JobProfiles, iv \in IVs, store_ok \in store_states :
      /\ Len(processing_logs) + Cardinality(pending_for_scoring(candidates)) <= MaxLog
      /\ LET r == score_all_pending(candidates, processing_logs, StoreKey, iv, job_profile)
         IN  IF store_ok
             THEN /\ candidates' = r.rows
                  /\ processing_logs' = r.logs
                  /\ last' = Call("score_all_pending", [raised |-> "none"],
                                  <<r.success_count, r.error_count>>)
             ELSE /\ UNCHANGED db_vars
                  /\ last' = Call("score_all_pending", [raised |-> "OperationalError"], <<>>)
      /\ UNCHANGED <<fs_vars, pure_vars>>

\* purge_data() of app.py: the tables are emptied; nothing of the file store
\* lies under the cache directory it then removes.  The call is recorded with
\* the tables as they were before it.
PurgeData ==
    \E ok \in BOOLEAN :
      LET r == purge_all_data(candidates, processing_logs, ok)
      IN  /\ candidates' = r.rows
          /\ processing_logs' = r.logs
          /\ last' = Call("purge_data",
                          [rows |-> candidates, logs |-> processing_logs], r.ret)
          /\ UNCHANGED <<fs_vars, pure_vars>>

\* EmailIngestor._select_best_resume(attachments) on its own
SelectBestResume ==
    /\ sel_in # <<>>
    /\ sel_out = None
    /\ sel_out' = select_best_resume(sel_in)
    /\ UNCHANGED <<fs_vars, db_vars, last, sel_in, sc_in, sc_out, fn_vars, start_vars, config_vars>>

\* CandidateScorer.score_candidate(candidate) on its own, for a row as
\* add_candidate writes it
ScoreCandidate ==
    /\ sc_in # None
    /\ sc_out = None
    /\ sc_out' = score_candidate(sc_in.job_profile, StoreKey,
                                 new_row(1, StoreKey, 1, sc_in.candidate_data))
    /\ UNCHANGED <<fs_vars, db_vars, last, sel_in, sel_out, sc_in, fn_vars, start_vars, config_vars>>

\* CandidateScorer._score_skills(candidate) on its own
ScoreSkills ==
    /\ sk_in # None
    /\ sk_out = None
    /\ sk_out' = Float(score_skills(sk_in.job_profile, sk_in.candidate))
    /\ UNCHANGED <<fs_vars, db_vars, last, sel_in, sel_out, sc_in, sc_out,
                   att_in, att_out, sk_in, start_vars, config_vars>>

\* CandidateScorer._score_experience(candidate) on its own
ScoreExperience ==
    /\ sk_in # None
    /\ sk_out = None
    /\ sk_out' = IF score_experience(sk_in.job_profile, sk_in.candidate) = ZeroDivisionError
                 THEN ZeroDivisionError
                 ELSE Float(score_experience(sk_in.job_profile, sk_in.candidate))
    /\ UNCHANGED <<fs_vars, db_vars, last, sel_in, sel_out, sc_in, sc_out,
                   att_in, att_out, sk_in, start_vars, config_vars>>

\* EmailIngestor._is_valid_attachment(attachment) on its own
IsValidAttachment ==
    /\ att_in # None
    /\ att_out = None
    /\ att_out' = Bool(is_valid_attachment(att_in))
    /\ UNCHANGED <<fs_vars, db_vars, last, sel_in, sel_out, sc_in, sc_out,
                   att_in, sk_in, sk_out, start_vars, config_vars>>

\* the bytes of one encrypted column are changed in the database file
Tamper(columns, kinds) ==
    \E id \in DOMAIN candidates, f \in columns, kind \in kinds :
      /\ candidates[id][f] # None
      /\ valid_ciphertext(candidates[id][f])
      /\ Cardinality({c \in EncryptedColumns :
                         candidates[id][c] # None /\ ~valid_ciphertext(candidates[id][c])})
            < MaxTampered
      /\ candidates' = [candidates EXCEPT ![id][f] = tampered(@, kind)]
      /\ last' = Call("tamper", [candidate_id |-> id, column |-> f, kind |-> kind], <<>>)
      /\ UNCHANGED <<processing_logs, fs_vars, pure_vars>>

\* the entries db.log_processing is called with on its own
LogInputs == {LogEntry("m1", "score", "success"), LogEntry("m2", "score", "failed")}

\* db.log_processing(session, email_id, action, status, message)
DbLogProcessing(max_log) ==
    \E entry \in LogInputs :
      /\ Len(processing_logs) < max_log
      /\ processing_logs' = db_log_processing(processing_logs, entry.email_id,
                                              entry.action, entry.status)
      /\ last' = Call("log_processing", entry, <<>>)
      /\ UNCHANGED <<candidates, fs_vars, pure_vars>>

\* is_parsed of a row is set in the database file.  No code of the
\* repository writes this column: the analysis sets the flag of the record
\* in metadata.md only.
MarkParsed ==
    \E id \in DOMAIN candidates :
      /\ ~candidates[id].is_parsed
      /\ candidates' = [candidates EXCEPT ![id].is_parsed = TRUE]
      /\ last' = Call("mark_parsed", [candidate_id |-> id], <<>>)
      /\ UNCHANGED <<processing_logs, fs_vars, pure_vars>>

\* the Export to CSV button
ExportCandidates ==
    /\ last' = Call("export_candidates", <<>>, export_candidates(candidates, StoreKey))
    /\ UNCHANGED <<db_vars, fs_vars, pure_vars>>

\* the Candidates tab is drawn
ShowCandidateList ==
    /\ last' = Call("show_candidate_list", <<>>, show_candidate_list(candidates, StoreKey))
    /\ UNCHANGED <<db_vars, fs_vars, pure_vars>>

\* config.update_setting(key, value)
UpdateSetting ==
    \E key \in SettingKeys, value \in SettingValues :
      LET r == update_setting(settings, settings_file, key, value)
      IN  /\ settings' = r.settings
          /\ settings_file' = r.file
          /\ last' = Call("update_setting", [key |-> key, value |-> value], r.ret)
          /\ UNCHANGED <<fs_vars, db_vars, sel_in, sel_out, sc_in, sc_out, fn_vars, start_vars>>

\* config.get_setting(key, default)
GetSetting ==
    \E key \in SettingKeys, default \in SettingDefaults :
      /\ last' = Call("get_setting", [key |-> key, default |-> default],
                      get_setting(settings, key, default))
      /\ UNCHANGED <<fs_vars, db_vars, pure_vars>>

\* python -m streamlit run app.py: the modules are imported
Start ==
    /\ env # None
    /\ app = None
    /\ app' = startup(env.v)
    /\ UNCHANGED <<fs_vars, db_vars, last, sel_in, sel_out, sc_in, sc_out, fn_vars, env, config_vars>>

\* db.add_candidate(session, candidate_data) in a started process
StartedAddCandidate ==
    /\ app.t = "running"
    /\ \E candidate_data \in CandidateInputs, iv \in IVs :
          LET r == add_candidate(candidates, app.v.cipher_key, iv, candidate_data)
          IN  /\ candidates' = r.rows
              /\ last' = Call("add_candidate", candidate_data, r.ret)
    /\ UNCHANGED <<processing_logs, fs_vars, pure_vars>>

\* candidate_scorer.score_candidate(candidate) in a started process
StartedScoreCandidate ==
    /\ app.t = "running"
    /\ sc_in # None
    /\ sc_out = None
    /\ sc_out' = score_candidate(app.v.job_profile, app.v.cipher_key,
                                 new_row(1, app.v.cipher_key, 1, sc_in.candidate_data))
    /\ UNCHANGED <<fs_vars, db_vars, last, sel_in, sel_out, sc_in, fn_vars, start_vars, config_vars>>

\* The whole program on a mailbox of one message and one candidate_data
Next ==
    \/ SyncFolder({<<"m1">>}, FALSE, MaxLogAll)
    \/ ParseAllPending(MaxLogAll)
    \/ FsUpdateCandidateStatus({"m1"}, {[notes |-> Text_n, tags |-> None]})
    \/ AddCandidate({CandidateInput("m1", "d1", Text_A, Text_s, List(<<Text_P, Text_a>>))})
    \/ UpdateCandidateStatus({1}, {None})
    \/ SaveCandidateNotes({1}, {Text_n})
    \/ ScoreAllPending(BOOLEAN)
    \/ PurgeData

Spec == Init /\ [][Next]_vars

\* Ingestion and analysis over the whole mailbox, with failures
NextIngest ==
    \/ SyncFolder(MessageLists, TRUE, MaxLog)
    \/ ParseAllPending(MaxLog)

SpecIngest == Init /\ [][NextIngest]_vars

\* Analysis over records whose document is a PDF, is a Word document, or is
\* no longer in its directory
NextParse ==
    \/ SyncFolder(ParseLists, FALSE, MaxLog)
    \/ ParseAllPending(MaxLog)
    \/ RemoveAttachment

SpecParse == Init /\ [][NextParse]_vars

\* The candidates table under every candidate_data
NextDb ==
    \/ AddCandidate(CandidateInputs)
    \/ UpdateCandidateStatus(RowIds, DbNoteInputs)
    \/ SaveCandidateNotes(RowIds, NoteInputs)
    \/ ScoreAllPending({TRUE})
    \/ PurgeData

SpecDb == Init /\ [][NextDb]_vars

\* The candidates table when the database file is altered under the program
NextTamper ==
    \/ AddCandidate({CandidateInput("m1", "d1", Text_A, Text_s, List(<<Text_P, Text_a>>))})
    \/ SaveCandidateNotes({1}, NoteInputs)
    \/ Tamper(EncryptedColumns, TamperKinds)
    \/ ScoreAllPending({TRUE})

SpecTamper == Init /\ [][NextTamper]_vars

\* The batches that decrypt every row, over a table of two rows of which
\* columns are altered
NextBatch ==
    \/ AddCandidate(BatchInputs)
    \/ MarkParsed
    \/ Tamper(BatchColumns, BatchKinds)
    \/ ScoreAllPending({TRUE})
    \/ ExportCandidates
    \/ ShowCandidateList

SpecBatch == Init /\ [][NextBatch]_vars

\* the decisions file_storage.update_candidate_status is called with: notes
\* and tags given, and the status alone (notes = "", tags = None)
Decisions == {[notes |-> Text_n, tags |-> List(<<Text_a>>)],
              [notes |-> Str(<<>>), tags |-> None]}

\* Decisions on a record of the file store and on a row of the table
NextDecide ==
    \/ SyncFolder({<<"m1">>}, FALSE, MaxLogAll)
    \/ FsUpdateCandidateStatus({"m1"}, Decisions)
    \/ AddCandidate(UnscoredInputs)
    \/ UpdateCandidateStatus({1}, {None, Text_n})

SpecDecide == Init /\ [][NextDecide]_vars

\* Scoring passes that fail on a row, next to the passes that write the
\* file store
NextUnscored ==
    \/ SyncFolder({<<"m1">>}, FALSE, MaxLogAll)
    \/ ParsePass(MaxLogAll, {{}})
    \/ AddCandidate(UnscoredInputs)
    \/ MarkParsed
    \/ Tamper({"skills"}, {"flip"})
    \/ ScoreAllPending({TRUE})

SpecUnscored == Init /\ [][NextUnscored]_vars

\* The analysis and the scoring pass run again and again, over records and
\* rows that are done, that are pending and that fail
NextPasses ==
    \/ SyncFolder({<<"m1">>}, FALSE, MaxLogAll)
    \/ ParseAllPending(MaxLogAll)
    \/ AddCandidate(UnscoredInputs)
    \/ MarkParsed
    \/ Tamper({"skills"}, {"flip"})
    \/ ScoreAllPending(BOOLEAN)

SpecPasses == Init /\ [][NextPasses]_vars

\* The two processing logs under every operation that writes to them
NextLog ==
    \/ SyncFolder({<<"m1">>}, TRUE, MaxLogAll)
    \/ ParseAllPending(MaxLogAll)
    \/ DbLogProcessing(MaxLogAll)
    \/ PurgeData

SpecLog == Init /\ [][NextLog]_vars

\* The settings under every update and every read
NextConfig ==
    \/ UpdateSetting
    \/ GetSetting

SpecConfig == Init /\ [][NextConfig]_vars

\* The passes of run_sync_pipeline, run again and again.  The file log is
\* capped at MaxLive entries; a fetch and a failed analysis leave room in it
\* for the analysis that succeeds, which is never held back by the cap.  Each
\* pass is run again as long as it can be, and the analyzer does succeed in
\* the end: the pass in which it succeeds on every document is fair.
MaxLive == 5

NextLive ==
    \/ SyncFolder({<<"m1">>}, FALSE, MaxLive - 1)
    \/ ParseAllPending(MaxLive - 1)
    \/ ParsePass(MaxLive, {{}})
    \/ ScoreAllPending({TRUE})

SpecLive ==
    /\ Init
    /\ [][NextLive]_vars
    /\ WF_vars(SyncFolder({<<"m1">>}, FALSE, MaxLive - 1))
    /\ WF_vars(ParsePass(MaxLive, {{}}))
    /\ WF_vars(ScoreAllPending({TRUE}))

\* The choice of the best resume, over every list of saved attachments
NextSelect == SelectBestResume

SpecSelect == InitWith(AttachmentLists, {None}) /\ [][NextSelect]_vars

\* score_candidate, over the weights of the job profile and the rows
NextScore == ScoreCandidate

SpecScore == InitWith({<<>>}, ScoreInputs) /\ [][NextScore]_vars

\* The attachment filter, over names and sizes
NextFilter == IsValidAttachment

SpecFilter == InitAll({<<>>}, {None}, FilterInputs, {None}, {None}) /\ [][NextFilter]_vars

\* The start of the process under every environment, and what a started
\* process encrypts and scores
NextStart ==
    \/ Start
    \/ StartedAddCandidate
    \/ StartedScoreCandidate

SpecStart ==
    InitAll({<<>>}, StartedScoreInputs, {None}, {None}, Environments) /\ [][NextStart]_vars

\* _score_skills, over the skill lists of the job and of the candidate
NextSkills == ScoreSkills

SpecSkills == InitAll({<<>>}, {None}, {None}, SkillInputs, {None}) /\ [][NextSkills]_vars

\* _score_experience, over the years of the job and of the candidate
NextExperience == ScoreExperience

SpecExperience ==
    InitAll({<<>>}, {None}, {None}, ExperienceInputs, {None}) /\ [][NextExperience]_vars

-----------------------------------------------------------------------------
(* The claims *)

\* the directories of the file store that hold a candidate record
StoredEmailIds == {e \in CandidateDirs(fs) : has_metadata(fs, e)}

\* C1: creating a record whose document hash equals the hash of a stored
\* record creates no second record: of several byte-identical documents only
\* the first is ever stored, whatever the message id or the file name, in the
\* file store as in the candidates table.
C1_OneRecordPerDocument ==
    /\ \A d, e \in StoredEmailIds :
          load_candidate_metadata(fs, d).resume_hash = load_candidate_metadata(fs, e).resume_hash
              => d = e
    /\ \A i, j \in DOMAIN candidates :
          (candidates[i].resume_hash # None
              /\ candidates[i].resume_hash = candidates[j].resume_hash) => i = j

\* C2: a sync_folder that follows a sync_folder over the same messages, both
\* without a failure, leaves the number of candidate records as it was; and no
\* sync_folder adds more records than it fetched messages that had none.
C2_ResyncKeepsCount ==
    [][last'.op = "sync_folder" =>
          /\ Len(list_all_candidates(fs')) - Len(list_all_candidates(fs))
                <= Cardinality({e \in Range(last'.arg.msgs) : ~has_metadata(fs, e)})
          /\ Len(list_all_candidates(fs')) >= Len(list_all_candidates(fs))
          /\ (last.op = "sync_folder" /\ last.arg.clean /\ last'.arg.clean
                 /\ Range(last'.arg.msgs) = Range(last.arg.msgs))
              => Len(list_all_candidates(fs')) = Len(list_all_candidates(fs))]_vars

\* the whole folder has been fetched twice in a row, m1 with success both
\* times, and there are the two records of the first pass
C2_Resynced ==
    /\ last.op = "sync_folder"
    /\ last.arg.clean
    /\ Len(last.arg.msgs) = 3
    /\ Len(SelectSeq(processing_log,
                     LAMBDA l : l = LogEntry("m1", "fetch", "success"))) = 2
    /\ Len(processing_log) = 6
    /\ Len(list_all_candidates(fs)) = 2

\* C3: in every reachable state no record, of the file store or of the
\* candidates table, is scored without being parsed.
C3_ScoredImpliesParsed ==
    /\ \A e \in StoredEmailIds :
          load_candidate_metadata(fs, e).is_scored => load_candidate_metadata(fs, e).is_parsed
    /\ \A i \in DOMAIN candidates : candidates[i].is_scored => candidates[i].is_parsed

\* score_all_pending has run over a table that holds a row, while the file
\* store holds a parsed record
C3_ScoringRan ==
    /\ last.op = "score_all_pending"
    /\ last.arg.raised = "none"
    /\ \E i \in DOMAIN candidates : ~candidates[i].is_parsed /\ ~candidates[i].is_scored
    /\ \E e \in StoredEmailIds : load_candidate_metadata(fs, e).is_parsed

\* C4: a decision update, to 'pass', to 'new' or to any status, through
\* either store, leaves is_parsed, is_scored, score and score breakdown of
\* every record as they were; so do a 'pass' and the 'new' that follows it.
C4_DecisionKeepsAnalysis ==
    [][LET Analysis(record) == <<record.is_parsed, record.is_scored,
                                  record.score, record.score_breakdown>>
       IN
       last'.op \in {"fs_update_candidate_status", "update_candidate_status"} =>
          /\ StoredEmailIds' = StoredEmailIds
          /\ \A e \in StoredEmailIds :
                Analysis(load_candidate_metadata(fs', e)) = Analysis(load_candidate_metadata(fs, e))
          /\ DOMAIN candidates' = DOMAIN candidates
          /\ \A i \in DOMAIN candidates : Analysis(candidates'[i]) = Analysis(candidates[i])]_vars

\* a parsed record that was passed has been reset to 'new'
C4_ResetAfterPass ==
    /\ last.op = "fs_update_candidate_status"
    /\ last.arg.from = "pass"
    /\ last.arg.status = "new"
    /\ last.ret
    /\ load_candidate_metadata(fs, last.arg.email_id).is_parsed
    /\ load_candidate_metadata(fs, last.arg.email_id).status = "new"

\* C5: a record that is parsed (scored) stays parsed (scored) in every later
\* state until a purge, whatever ingestion, analysis, scoring or decision
\* step is taken, a new fetch of its message included.
C5_FlagsNeverCleared ==
    [][last'.op # "purge_data" =>
          /\ \A e \in StoredEmailIds :
                /\ e \in StoredEmailIds'
                /\ load_candidate_metadata(fs, e).is_parsed
                      => load_candidate_metadata(fs', e).is_parsed
                /\ load_candidate_metadata(fs, e).is_scored
                      => load_candidate_metadata(fs', e).is_scored
          /\ \A i \in DOMAIN candidates :
                /\ i \in DOMAIN candidates'
                /\ candidates[i].is_parsed => candidates'[i].is_parsed
                /\ candidates[i].is_scored => candidates'[i].is_scored]_vars

\* C6: every string and every JSON structure written to an encrypted field
\* by add_candidate, and every notes written by update_candidate_status or
\* save_candidate_notes, the empty ones included, is what to_dict under the
\* same key returns for that field.
C6_RoundTrip ==
    /\ (last.op = "add_candidate" /\ ~IsRaise(last.ret)) =>
          \A f \in EncryptedColumns \ {"notes"} :
              last.arg[f] # None =>
                  /\ ~IsRaise(Candidate_to_dict(candidates[last.ret.v], StoreKey))
                  /\ f \in DOMAIN Candidate_to_dict(candidates[last.ret.v], StoreKey).v
                  /\ Candidate_to_dict(candidates[last.ret.v], StoreKey).v[f] = last.arg[f]
    /\ (last.op \in {"update_candidate_status", "save_candidate_notes"}
           /\ last.arg.candidate_id \in DOMAIN candidates
           /\ last.arg.notes # None) =>
          /\ ~IsRaise(Candidate_to_dict(candidates[last.arg.candidate_id], StoreKey))
          /\ Candidate_to_dict(candidates[last.arg.candidate_id], StoreKey).v.notes
                = last.arg.notes

\* C7: to_dict on a row one of whose encrypted columns holds bytes that are
\* no valid ciphertext under the store's key ends in an error.
C7_InvalidCiphertextRaises ==
    \A i \in DOMAIN candidates :
        (\E f \in EncryptedColumns :
            candidates[i][f] # None /\ ~valid_ciphertext(candidates[i][f]))
        => IsRaise(Candidate_to_dict(candidates[i], StoreKey))

\* C8: in the candidates table and in the metadata, analysis and decision
\* files, each of candidate name, email, phone and notes is absent (None or
\* empty) or ciphertext.
C8_PiiAbsentOrCiphertext ==
    /\ \A i \in DOMAIN candidates : \A f \in StringColumns :
          ~Truthy(candidates[i][f]) \/ candidates[i][f].t = "bytes"
    /\ \A e \in StoredEmailIds : \A f \in StringColumns :
          \/ ~Truthy(fs[metadata_file(e)].json[f])
          \/ fs[metadata_file(e)].json[f].t = "bytes"
    /\ \A e \in EmailIds :
          analysis_file(e) \in DOMAIN fs =>
              \A f \in {"name", "email", "phone"} :
                  ~Truthy(fs[analysis_file(e)][f]) \/ fs[analysis_file(e)][f].t = "bytes"
    /\ \A e \in EmailIds :
          decision_file(e) \in DOMAIN fs =>
              ~Truthy(fs[decision_file(e)].notes) \/ fs[decision_file(e)].notes.t = "bytes"

\* C9: score_candidate returns a total between 0 and 100 for every row and
\* every job profile whose three weights are not negative, whatever their sum.
C9_TotalWithinScale ==
    (sc_out # None /\ ~IsRaise(sc_out)) =>
        RLeq(Zero, sc_out.v.total) /\ RLeq(sc_out.v.total, Rat(100, 1))

\* C10: of two or more saved attachments _select_best_resume returns the
\* first, in the order given, of those with the highest score, the score
\* being 10 for 'resume' in the name, else 8 for 'cv', else 6 for 'curriculum'
\* or 'vitae', plus 5 for a size over 200000, else 3 over 100000, else 1 over
\* 50000, plus 2 for the extension pdf; the choice depends on the list alone.
C10_FirstOfHighest ==
    LET has(att, word) == Contains(Lower(att.name), word)
        score(att) ==
            (IF has(att, <<"r","e","s","u","m","e">>) THEN 10
             ELSE IF has(att, <<"c","v">>) THEN 8
             ELSE IF has(att, <<"c","u","r","r","i","c","u","l","u","m">>)
                     \/ has(att, <<"v","i","t","a","e">>) THEN 6
             ELSE 0)
            + (IF att.size > 200000 THEN 5
               ELSE IF att.size > 100000 THEN 3
               ELSE IF att.size > 50000 THEN 1
               ELSE 0)
            + (IF Lower(Suffix(att.name)) = <<".","p","d","f">> THEN 2 ELSE 0)
        first == CHOOSE i \in 1..Len(sel_in) :
                     /\ \A j \in 1..Len(sel_in) : score(sel_in[j]) <= score(sel_in[i])
                     /\ \A j \in 1..(i - 1) : score(sel_in[j]) < score(sel_in[i])
    IN  (Len(sel_in) >= 2 /\ sel_out # None) => sel_out = sel_in[first]

\* the choice was made among three attachments of which the last two, which
\* differ, share the highest score
C10_TieAfterLower ==
    /\ Len(sel_in) = 3
    /\ sel_out # None
    /\ sel_in[2] # sel_in[3]
    /\ attachment_score(sel_in[2]) = attachment_score(sel_in[3])
    /\ attachment_score(sel_in[1]) < attachment_score(sel_in[2])
    /\ sel_out = sel_in[2]

\* C11: _is_valid_attachment accepts an attachment exactly when its
\* extension is in the list of supported extensions, its size is not above
\* the maximum, its lowercased name contains no exclusion term, and it is
\* not both smaller than 50000 bytes and without any resume-like term; a name
\* with an exclusion term is rejected whatever its size and whatever
\* resume-like term it also contains.
C11_FilterIff ==
    LET name == Lower(att_in.name)
        excluded == \E i \in 1..Len(exclude_patterns) : Contains(name, exclude_patterns[i])
        resume_like == \E i \in 1..Len(resume_patterns) : Contains(name, resume_patterns[i])
    IN  att_out # None =>
            /\ att_out.v <=> (/\ Lower(Suffix(att_in.name)) \in supported_extensions
                              /\ att_in.size <= max_attachment_size
                              /\ ~excluded
                              /\ ~(att_in.size < 50000 /\ ~resume_like))
            /\ excluded => ~att_out.v

\* a file of a supported type and more than 50000 bytes whose name has both
\* a resume-like term and an exclusion term was rejected
C11_ExcludedResumeRejected ==
    /\ att_out # None
    /\ att_in.name = Name_cv_form_pdf
    /\ att_in.size = 50001
    /\ ~att_out.v

\* the entries of a processing log that are about one message
EntriesOf(log, email_id) == {k \in 1..Len(log) : log[k].email_id = email_id}

\* the names of the attachments of each message that the filter rejects
RejectedNames ==
    [e \in EmailIds |->
        {a.name : a \in {b \in Range(Messages[e].attachments) : ~is_valid_attachment(b)}}]

\* C12: when sync_folder has downloaded a message none of whose attachments
\* passes the filter, the pass creates no candidate record for it and adds
\* exactly one entry for it to the processing log, with action fetch and
\* outcome skipped.
C12_SkippedOnce ==
    [][last'.op = "sync_folder" =>
          \A i \in 1..Len(last'.arg.msgs) :
              LET e == last'.arg.msgs[i]
              IN  (ResumeAttachments[e] = <<>> /\ last'.arg.faults[i] # "download") =>
                      /\ StoredEmailIds' \ {e} = StoredEmailIds'
                      /\ has_metadata(fs', e) = has_metadata(fs, e)
                      /\ Cardinality(EntriesOf(processing_log', e))
                            = Cardinality(EntriesOf(processing_log, e)) + 1
                      /\ \E k \in EntriesOf(processing_log', e) :
                            /\ processing_log'[k] = LogEntry(e, "fetch", "skipped")
                            /\ Cardinality({j \in EntriesOf(processing_log', e) : j > k})
                                  = Cardinality(EntriesOf(processing_log, e))]_vars

\* the folder was fetched and m3, whose only attachment is excluded, has one
\* entry in the log and no record
C12_ExcludedSkipped ==
    /\ last.op = "sync_folder"
    /\ \E i \in 1..Len(last.arg.msgs) :
          last.arg.msgs[i] = "m3" /\ last.arg.faults[i] = "none"
    /\ ResumeAttachments["m3"] = <<>>
    /\ Messages["m3"].attachments # <<>>
    /\ Cardinality(EntriesOf(processing_log, "m3")) = 1
    /\ processing_log[1] = LogEntry("m3", "fetch", "skipped")
    /\ "m3" \notin StoredEmailIds

\* the attachment the selector is to choose among those of a message that
\* pass the filter: the first of those with the highest score
Chosen ==
    [e \in {x \in EmailIds : ResumeAttachments[x] # <<>>} |->
        LET surviving == ResumeAttachments[e]
        IN  surviving[CHOOSE i \in 1..Len(surviving) :
                         /\ \A j \in 1..Len(surviving) :
                               attachment_score(surviving[j]) <= attachment_score(surviving[i])
                         /\ \A j \in 1..(i - 1) :
                               attachment_score(surviving[j]) < attachment_score(surviving[i])]]

\* C13: when sync_folder has ingested, without a failure of the mail source
\* or of the store, a message with at least one attachment that passes the
\* filter, there is exactly one candidate record of that message, and its
\* resume_filename, resume_hash and resume_size_bytes are those of the
\* attachment the selector chooses among the accepted ones; no attachment
\* the filter rejected is the record's document.
C13_RecordOfChosen ==
    [][last'.op = "sync_folder" =>
          \A i \in 1..Len(last'.arg.msgs) :
              LET e == last'.arg.msgs[i]
              IN  (ResumeAttachments[e] # <<>> /\ last'.arg.faults[i] = "none") =>
                      /\ Cardinality({d \in StoredEmailIds' :
                                         load_candidate_metadata(fs', d).email_id = e}) = 1
                      /\ has_metadata(fs', e)
                      /\ load_candidate_metadata(fs', e).resume_filename = Chosen[e].name
                      /\ load_candidate_metadata(fs', e).resume_hash
                            = calculate_file_hash(Chosen[e].content)
                      /\ load_candidate_metadata(fs', e).resume_size_bytes = Chosen[e].size
                      /\ load_candidate_metadata(fs', e).resume_filename \notin RejectedNames[e]]_vars

\* m2, whose second attachment scores higher than its first, was ingested
\* without a failure and its record holds the second; m1, one of whose
\* attachments is rejected, has its record too
C13_SecondChosen ==
    /\ last.op = "sync_folder"
    /\ last.arg.clean
    /\ Len(last.arg.msgs) = 3
    /\ Len(ResumeAttachments["m2"]) = 2
    /\ has_metadata(fs, "m2")
    /\ load_candidate_metadata(fs, "m2").resume_filename = Messages["m2"].attachments[2].name
    /\ has_metadata(fs, "m1")
    /\ Len(ResumeAttachments["m1"]) < Len(Messages["m1"].attachments)

C15_ExperienceFromText ==
    LET text == IF sc_in.candidate_data.resume_text = None
                THEN <<>> ELSE sc_in.candidate_data.resume_text.v
        entries == IF sc_in.candidate_data.experience = None
                   THEN <<>> ELSE sc_in.candidate_data.experience.v
        domains == LowerAll(sc_in.job_profile.experience.required_domains)
        k == Cardinality({i \in 1..Len(domains) : Contains(LowerText(text), domains[i])})
        years == IF entries = <<>> THEN years_in_text(text) ELSE SumYears(entries)
        expected == RMin(One,
                         RAdd(RMul(years_score(years,
                                               sc_in.job_profile.experience.minimum_years,
                                               sc_in.job_profile.experience.preferred_years),
                                   Rat(7, 10)),
                              RMul(Rat(k, Len(domains)), Rat(3, 10))))
    IN  (sc_out # None /\ ~IsRaise(sc_out) /\ domains # <<>>) =>
            sc_out.v.breakdown.experience.score = expected

\* two fractions are the same number
SameNumber(a, b) == a.n * b.d = b.n * a.d

\* C16: the total score_candidate returns is score_skills * weights.skills
\* + score_education * weights.education + score_experience *
\* weights.experience; total_score of the breakdown is that total; the three
\* weighted_score entries of the breakdown, times 100, sum to it; and each
\* entry carries the raw score and the weight of its factor.
C16_TotalIsWeightedSum ==
    LET read == Candidate_to_dict(new_row(1, StoreKey, 1, sc_in.candidate_data), StoreKey).v
        weights == sc_in.job_profile.weights
        skills == score_skills(sc_in.job_profile, read)
        education == score_education(sc_in.job_profile, read)
        experience == score_experience(sc_in.job_profile, read)
        times(x, w) == RMul(x, Rat(w, 1))
        breakdown == sc_out.v.breakdown
    IN  (sc_out # None /\ ~IsRaise(sc_out)) =>
            /\ SameNumber(sc_out.v.total,
                          RAdd(RAdd(times(skills, weights.skills),
                                    times(education, weights.education)),
                               times(experience, weights.experience)))
            /\ SameNumber(breakdown.total_score, sc_out.v.total)
            /\ SameNumber(RAdd(RAdd(times(breakdown.skills.weighted_score, 100),
                                    times(breakdown.education.weighted_score, 100)),
                               times(breakdown.experience.weighted_score, 100)),
                          sc_out.v.total)
            /\ SameNumber(breakdown.skills.score, skills)
            /\ SameNumber(breakdown.education.score, education)
            /\ SameNumber(breakdown.experience.score, experience)
            /\ breakdown.skills.weight = weights.skills
            /\ breakdown.education.weight = weights.education
            /\ breakdown.experience.weight = weights.experience

\* a row with a skills factor of 0.6 and an education factor of 0.7 was
\* scored under the weights 60, 20 and 20: 36 + 14 + 0
C16_FiftyOfHundred ==
    /\ sc_out # None
    /\ ~IsRaise(sc_out)
    /\ sc_in.job_profile.weights = [skills |-> 60, education |-> 20, experience |-> 20]
    /\ sc_out.v.breakdown.skills.score = Rat(3, 5)
    /\ sc_out.v.breakdown.education.score = Rat(7, 10)
    /\ sc_out.v.total = Rat(50, 1)

\* C17: after a purge that reports success there is no candidate record,
\* in the table or in the file store, no processing-log entry in either log,
\* and no attachment file that ingestion or analysis wrote; a purge that
\* reports failure has removed no record and no log entry.
C17_PurgeRemovesAll ==
    last.op = "purge_data" =>
        IF last.ret
        THEN /\ candidates = <<>>
             /\ processing_logs = <<>>
             /\ StoredEmailIds = {}
             /\ processing_log = <<>>
             /\ \A path \in DOMAIN fs : path[1] \notin {"candidates", "resumes"}
        ELSE /\ candidates = last.arg.rows
             /\ processing_logs = last.arg.logs

\* the entries a pass has added to the processing log that are about one
\* message: the log has its newest entry first
AddedEntries(before, after, email_id) ==
    {k \in 1..(Len(after) - Len(before)) : after[k].email_id = email_id}

\* C18: in sync_folder and in parse_all_pending, an item whose processing
\* fails (the download of the attachments, the writing of every attachment
\* file, the writing of metadata.md; the analysis of the document) is
\* counted in the error count returned, the pass adds one entry with outcome
\* failed for it to the processing log, and every other item of the pass
\* is still processed, which leaves one entry for each.
C18_ItemFailureContained ==
    [][/\ last'.op = "sync_folder" =>
             LET msgs == last'.arg.msgs
                 failed == {i \in 1..Len(msgs) :
                               \/ last'.arg.faults[i] = "download"
                               \/ /\ last'.arg.faults[i] # "none"
                                  /\ ResumeAttachments[msgs[i]] # <<>>}
             IN  /\ last'.ret[2] >= Cardinality(failed)
                 /\ last'.ret[1] <= Len(msgs) - Cardinality(failed)
                 /\ \A i \in 1..Len(msgs) :
                       Cardinality(AddedEntries(processing_log, processing_log', msgs[i])) = 1
                 /\ \A i \in failed :
                       \A k \in AddedEntries(processing_log, processing_log', msgs[i]) :
                           processing_log'[k] = LogEntry(msgs[i], "fetch", "failed")
       /\ last'.op = "parse_all_pending" =>
             LET items == {e \in StoredEmailIds : ~load_candidate_metadata(fs, e).is_parsed}
                 failed == last'.arg.failing
             IN  /\ last'.ret[2] >= Cardinality(failed)
                 /\ last'.ret[1] <= Cardinality(items) - Cardinality(failed)
                 /\ \A e \in items :
                       Cardinality(AddedEntries(processing_log, processing_log', e)) = 1
                 /\ \A e \in failed :
                       \A k \in AddedEntries(processing_log, processing_log', e) :
                           processing_log'[k] = LogEntry(e, "parse", "failed")]_vars

\* C19: sync_folder, parse_all_pending and score_all_pending each return a
\* pair of numbers that are not negative, the success count and the error
\* count, whatever fails in the mail source, the analyzer or the store; no
\* call of them ends in an exception.
C19_AlwaysAPair ==
    last.op \in {"sync_folder", "parse_all_pending", "score_all_pending"} =>
        /\ Len(last.ret) = 2
        /\ last.ret[1] \in Nat
        /\ last.ret[2] \in Nat

\* C20: when AES_KEY is missing or is no valid key, and when the job
\* profile is missing or invalid, the start of the process ends in an error;
\* no column is ever encrypted under a key other than the configured one,
\* and no row is ever scored against the empty profile put in place of a
\* profile that could not be loaded.
C20_FatalConfiguration ==
    env # None =>
        /\ (app # None /\ (env.v.AES_KEY # "valid" \/ env.v.job_profile_file # "valid"))
              => IsRaise(app)
        /\ \A i \in DOMAIN candidates : \A f \in EncryptedColumns :
              candidates[i][f] # None =>
                  env.v.AES_KEY = "valid" /\ valid_ciphertext(candidates[i][f])
        /\ sc_out # None => env.v.job_profile_file = "valid"

\* the resume file of a stored record is not where parse_all_pending looks
ResumeFileMissing(files, e) ==
    attachment_file(e, load_candidate_metadata(files, e).resume_filename) \notin DOMAIN files

\* the stored record's resume is no PDF
ResumeUnsupported(files, e) ==
    Lower(Suffix(load_candidate_metadata(files, e).resume_filename)) # <<".","p","d","f">>

\* C21: when the analysis of a record fails inside parse_all_pending (the
\* analyzer raises, the file is no PDF, the file is missing), the record's
\* parse_error is set and its is_parsed stays false; and every pass takes
\* every unparsed record, those with a parse_error included: each is counted
\* once in what the pass returns and is parsed or carries a parse_error after.
C21_FailureRetried ==
    [][last'.op = "parse_all_pending" =>
          /\ \A e \in StoredEmailIds :
                ~load_candidate_metadata(fs, e).is_parsed =>
                    IF \/ e \in last'.arg.failing
                       \/ ResumeUnsupported(fs, e)
                       \/ ResumeFileMissing(fs, e)
                    THEN /\ load_candidate_metadata(fs', e).parse_error # None
                         /\ ~load_candidate_metadata(fs', e).is_parsed
                    ELSE load_candidate_metadata(fs', e).is_parsed
          /\ last'.ret[1] + last'.ret[2]
                = Cardinality({e \in StoredEmailIds : ~load_candidate_metadata(fs, e).is_parsed})]_vars

\* the analyzer failed on m1's PDF in two passes, the Word document of m4
\* was turned away, and both records wait for the next pass
C21_FailedTwice ==
    /\ last.op = "parse_all_pending"
    /\ last.arg.failing = {"m1"}
    /\ last.ret = <<0, 2>>
    /\ Len(SelectSeq(processing_log, LAMBDA l : l = LogEntry("m1", "parse", "failed"))) = 2
    /\ \A e \in {"m1", "m4"} :
          /\ load_candidate_metadata(fs, e).parse_error = ParseError
          /\ ~load_candidate_metadata(fs, e).is_parsed

\* to_dict reads every column of the row
Readable(i) == ~IsRaise(Candidate_to_dict(candidates[i], StoreKey))

\* C22: in score_all_pending, export_candidates and show_candidate_list a
\* row with an undecryptable column is reported as failed or left out, that
\* row only: after the pass every parsed row is scored, or does not decrypt
\* and is logged as failed; and every row that decrypts is among the lines
\* exported and among the lines listed.
C22_BadRowOnly ==
    /\ (last.op = "score_all_pending" /\ last.arg.raised = "none") =>
          \A i \in DOMAIN candidates :
              candidates[i].is_parsed =>
                  \/ candidates[i].is_scored
                  \/ /\ ~Readable(i)
                     /\ \E k \in DOMAIN processing_logs :
                           processing_logs[k] = LogEntry(candidates[i].email_id, "score", "failed")
    /\ last.op = "export_candidates" =>
          \A i \in DOMAIN candidates :
              Readable(i) => /\ last.ret.t = "lines"
                             /\ \E l \in last.ret.v : l.Received_Date = candidates[i].email_date
    /\ last.op = "show_candidate_list" =>
          \A i \in DOMAIN candidates :
              Readable(i) => /\ last.ret.t = "lines"
                             /\ \E l \in last.ret.v : l.ID = i

\* C23: each log_processing call that succeeds, of the file store and of the
\* database, adds exactly one entry to its log and leaves every earlier entry
\* present and unchanged: a sync adds one entry for each message whose
\* attachments were downloaded, a parse pass one for each record whose file it
\* read; and no step other than a purge removes or alters an entry.
C23_LogOnlyGrows ==
    [][/\ last'.op # "purge_data" =>
             /\ Len(processing_log') >= Len(processing_log)
             /\ SubSeq(processing_log', Len(processing_log') - Len(processing_log) + 1,
                       Len(processing_log')) = processing_log
             /\ Len(processing_logs') >= Len(processing_logs)
             /\ SubSeq(processing_logs', 1, Len(processing_logs)) = processing_logs
       /\ last'.op = "log_processing" =>
             /\ processing_logs' = Append(processing_logs, last'.arg)
             /\ processing_log' = processing_log
       /\ last'.op = "sync_folder" =>
             /\ Len(processing_log') - Len(processing_log)
                   = Cardinality({i \in DOMAIN last'.arg.msgs : last'.arg.faults[i] # "download"})
             /\ processing_logs' = processing_logs
       /\ last'.op = "parse_all_pending" =>
             /\ Len(processing_log') - Len(processing_log)
                   = Cardinality({e \in StoredEmailIds :
                                    /\ ~load_candidate_metadata(fs, e).is_parsed
                                    /\ ~ResumeFileMissing(fs, e)})
             /\ processing_logs' = processing_logs]_vars

\* the file log holds the entry of a fetch under the entry of the analysis
\* that followed it, and the table two entries in the order they were written
C23_BothLogsGrew ==
    /\ processing_log = <<LogEntry("m1", "parse", "success"), LogEntry("m1", "fetch", "success")>>
    /\ processing_logs = <<LogEntry("m2", "score", "failed"), LogEntry("m1", "score", "success")>>
    /\ last.op = "log_processing"

\* the parts of a key name a value of the settings, dictionary by dictionary
RECURSIVE PathExists(_, _)
PathExists(value, keys) ==
    \/ keys = <<>>
    \/ /\ value.t = "dict"
       /\ \E i \in 1..Len(value.v) :
             value.v[i][1] = Head(keys) /\ PathExists(value.v[i][2], Tail(keys))

\* C24: for every dotted key k and every value v that is not None, after
\* update_setting(k, v) get_setting(k) returns v and the settings file holds
\* v at k; and get_setting(k, d) returns d when the settings hold nothing at
\* the path k.
C24_UpdateThenGet ==
    /\ last.op = "update_setting" =>
          /\ ~IsRaise(last.ret)
          /\ get_setting(settings, last.arg.key, None) = last.arg.value
          /\ get_setting(json_loads(settings_file), last.arg.key, None) = last.arg.value
    /\ (last.op = "get_setting" /\ ~PathExists(settings, Split(last.arg.key, 46))) =>
          last.ret = last.arg.default

\* the record of a message in the file store, and its row in the table
Ingested(e) == has_metadata(fs, e)
Analyzed(e) == has_metadata(fs, e) /\ load_candidate_metadata(fs, e).is_parsed
Scored(e) ==
    \/ has_metadata(fs, e) /\ load_candidate_metadata(fs, e).is_scored
    \/ \E i \in DOMAIN candidates : candidates[i].email_id = e /\ candidates[i].is_scored

\* C25: with the passes of the pipeline run again and again and the analyzer
\* succeeding in the end, the record ingestion created for m1 is analyzed in
\* the end.
C25_AnalyzedInTheEnd == Ingested("m1") ~> Analyzed("m1")

\* C25: ... and once analyzed it is scored in the end, its score stored.
C25_ScoredInTheEnd == Analyzed("m1") ~> Scored("m1")

\* a second analysis of m1's record succeeded after the first had failed
C25_AnalyzedAfterFailure ==
    /\ Analyzed("m1")
    /\ last.op = "parse_all_pending"
    /\ last.ret = <<1, 0>>
    /\ \E k \in DOMAIN processing_log : processing_log[k] = LogEntry("m1", "parse", "failed")

\* C26: a row of the table with is_scored = false has score 0, and so has a
\* record of the file store; also after score_all_pending failed on the row.
C26_UnscoredIsZero ==
    /\ \A i \in DOMAIN candidates : ~candidates[i].is_scored => candidates[i].score = Zero
    /\ \A e \in EmailIds :
          (has_metadata(fs, e) /\ ~load_candidate_metadata(fs, e).is_scored) =>
              load_candidate_metadata(fs, e).score = 0

\* score_all_pending has just failed on a parsed row, which is still unscored
C26_FailedAttempt ==
    /\ last.op = "score_all_pending"
    /\ last.arg.raised = "none"
    /\ last.ret[2] >= 1
    /\ \E i \in DOMAIN candidates :
          /\ candidates[i].is_parsed
          /\ ~candidates[i].is_scored
          /\ ~Readable(i)
          /\ candidates[i].score = Zero
          /\ processing_logs[Len(processing_logs)] = LogEntry(candidates[i].email_id, "score", "failed")

\* C27: an update of the decision with the status alone leaves the notes and
\* the tags of the record as they were, in the file store
\* (file_storage.update_candidate_status(email_id, status)) and in the table
\* (db.update_candidate_status(session, candidate_id, status)).
C27_StatusOnlyKeepsNotes ==
    [][/\ (/\ last'.op = "fs_update_candidate_status"
           /\ last'.arg.notes = Str(<<>>)
           /\ last'.arg.tags = None
           /\ has_metadata(fs, last'.arg.email_id)) =>
             /\ has_metadata(fs', last'.arg.email_id)
             /\ load_candidate_metadata(fs', last'.arg.email_id).notes
                    = load_candidate_metadata(fs, last'.arg.email_id).notes
             /\ load_candidate_metadata(fs', last'.arg.email_id).tags
                    = load_candidate_metadata(fs, last'.arg.email_id).tags
       /\ (/\ last'.op = "update_candidate_status"
           /\ last'.arg.notes = None
           /\ last'.arg.candidate_id \in DOMAIN candidates) =>
             /\ candidates'[last'.arg.candidate_id].notes = candidates[last'.arg.candidate_id].notes
             /\ candidates'[last'.arg.candidate_id].tags = candidates[last'.arg.candidate_id].tags
      ]_vars

\* the same, of the table only
C27_RowKeepsNotes ==
    [][(/\ last'.op = "update_candidate_status"
        /\ last'.arg.notes = None
        /\ last'.arg.candidate_id \in DOMAIN candidates) =>
             /\ candidates'[last'.arg.candidate_id].notes = candidates[last'.arg.candidate_id].notes
             /\ candidates'[last'.arg.candidate_id].tags = candidates[last'.arg.candidate_id].tags
      ]_vars

\* a row with notes stored has had its status changed by a status-only update
C27_StatusChangedNotesKept ==
    /\ last.op = "update_candidate_status"
    /\ last.arg.notes = None
    /\ last.ret = TRUE
    /\ last.arg.from # last.arg.status
    /\ candidates[1].notes # None

\* C28: for all non-negative minimum, preferred and candidate years,
\* _score_experience raises no ZeroDivisionError and returns a value between
\* 0 and 1, the ends included.
C28_ExperienceInRange ==
    sk_out # None =>
        /\ sk_out # ZeroDivisionError
        /\ sk_out.t = "float"
        /\ sk_out.v.d > 0
        /\ 0 <= sk_out.v.n
        /\ sk_out.v.n <= sk_out.v.d

\* the score of a candidate with the years a job both requires and prefers
C28_PreferredIsMinimum ==
    /\ sk_out # None
    /\ sk_in.job_profile.experience.preferred_years = sk_in.job_profile.experience.minimum_years
    /\ get_total_experience_years(sk_in.candidate) = sk_in.job_profile.experience.minimum_years
    /\ sk_out.t = "float"

\* the messages of a sync for which a record was saved: an eligible
\* attachment was downloaded and written, and metadata.md was written
SavedInSync(msgs, faults) ==
    {i \in 1..Len(msgs) : ResumeAttachments[msgs[i]] # <<>> /\ faults[i] = "none"}

\* the messages of a sync skipped for having no eligible attachment
SkippedInSync(msgs, faults) ==
    {i \in 1..Len(msgs) : ResumeAttachments[msgs[i]] = <<>> /\ faults[i] # "download"}

\* C29: a sync_folder that reached the folder counts every message once:
\* processed + errors is the number of messages, processed is the number of
\* messages whose record was saved (and is stored), and errors counts every
\* other message, the skipped ones among them.
C29_EveryMessageCounted ==
    (last.op = "sync_folder" /\ last.arg.reachable) =>
        /\ last.ret[1] + last.ret[2] = Len(last.arg.msgs)
        /\ last.ret[1] = Cardinality(SavedInSync(last.arg.msgs, last.arg.faults))
        /\ \A i \in SavedInSync(last.arg.msgs, last.arg.faults) : has_metadata(fs, last.arg.msgs[i])
        /\ last.ret[2] = Len(last.arg.msgs) - Cardinality(SavedInSync(last.arg.msgs, last.arg.faults))
        /\ last.ret[2] >= Cardinality(SkippedInSync(last.arg.msgs, last.arg.faults))

\* a sync of three messages saved a record for one, failed on one and
\* skipped one
C29_SavedFailedSkipped ==
    /\ last.op = "sync_folder"
    /\ last.arg.reachable
    /\ last.ret = <<1, 2>>
    /\ SkippedInSync(last.arg.msgs, last.arg.faults) # {}
    /\ \E i \in DOMAIN last.arg.faults : last.arg.faults[i] = "save_metadata"

\* the records parse_all_pending has to analyze, the rows score_all_pending
\* has to score
UnparsedIds(files) == {e \in EmailIds : has_metadata(files, e) /\ ~load_candidate_metadata(files, e).is_parsed}
UnscoredIds(rows) == {i \in DOMAIN rows : rows[i].is_parsed /\ ~rows[i].is_scored}

\* C30: parse_all_pending leaves every record with is_parsed = true as it is
\* and counts at most the records that were unparsed; score_all_pending
\* leaves every row with is_scored = true as it is and counts at most the
\* rows that were pending.  So a pass run when its earlier run left nothing
\* pending, a second run in a row among them, changes no record, writes no
\* log entry and returns a success count of 0.
C30_DoneIsNotDoneAgain ==
    [][/\ last'.op = "parse_all_pending" =>
             /\ \A e \in EmailIds :
                   (has_metadata(fs, e) /\ load_candidate_metadata(fs, e).is_parsed) =>
                       /\ has_metadata(fs', e)
                       /\ fs'[metadata_file(e)] = fs[metadata_file(e)]
                       /\ \A p \in DOMAIN fs : p[2] = e => (p \in DOMAIN fs' /\ fs'[p] = fs[p])
             /\ last'.ret[1] + last'.ret[2] = Cardinality(UnparsedIds(fs))
             /\ UnparsedIds(fs) = {} =>
                   /\ fs' = fs
                   /\ processing_log' = processing_log
                   /\ last'.ret[1] = 0
       /\ (last'.op = "score_all_pending" /\ last'.arg.raised = "none") =>
             /\ \A i \in DOMAIN candidates :
                   candidates[i].is_scored => candidates'[i] = candidates[i]
             /\ last'.ret[1] + last'.ret[2] = Cardinality(UnscoredIds(candidates))
             /\ Len(processing_logs') = Len(processing_logs) + Cardinality(UnscoredIds(candidates))
             /\ UnscoredIds(candidates) = {} =>
                   /\ candidates' = candidates
                   /\ processing_logs' = processing_logs
                   /\ last'.ret[1] = 0
      ]_vars

\* a scoring pass has returned (0, 0) over a table whose row is scored, the
\* newest entry of the log being the success of the pass before
C30_SecondPassDidNothing ==
    /\ last.op = "score_all_pending"
    /\ last.arg.raised = "none"
    /\ last.ret = <<0, 0>>
    /\ candidates # <<>>
    /\ \A i \in DOMAIN candidates : candidates[i].is_parsed /\ candidates[i].is_scored
    /\ processing_logs # <<>>
    /\ processing_logs[Len(processing_logs)] = LogEntry("m1", "score", "success")

=============================================================================
